---- MODULE Spec2Model ----
(***************************************************************************)
(* Token caching and refresh coordination of gcp_auth.                     *)
(*                                                                         *)
(* Two state machines share the clock and the token cache:                 *)
(*   Spec    AuthenticationManager::get_token / background_refresh over a  *)
(*           ServiceAccount provider (authentication_manager.rs);          *)
(*   TPSpec  the TokenProvider::token implementations that guard their     *)
(*           cache with a tokio RwLock (custom_service_account.rs,         *)
(*           external_account.rs, config_default_credentials.rs,           *)
(*           metadata_service_account.rs, gcloud_authorized_user.rs).      *)
(* Time is in seconds.  A scope is a small integer, a scope list a         *)
(* sequence of scopes.                                                     *)
(***************************************************************************)
EXTENDS Integers, Sequences, FiniteSets, TLC

\* ------------------------------------------------------------------ bounds

\* Callers of get_token / token, and the calls they start in all.
NumCallers == 3
MaxCalls == 2

\* The clock stops here.
MaxTime == 60

Callers == 1..NumCallers

\* The clock advances in steps of these sizes.
TickSteps == {20}

\* expires_in values the token endpoint may answer with.
Lifetimes == {30, 100}

\* The scope lists callers ask for: <<1, 2>> and <<2, 1>> hold the same scopes
\* in a different order, <<3>> is disjoint from both.
ScopeLists == {<<1, 2>>, <<2, 1>>, <<3>>}

\* --------------------------------------------------------------- constants

\* Token::has_expired: the safety margin, in seconds.
ExpiryMargin == 20

\* get_token: a token valid for less than this is refreshed in the background.
RefreshAhead == 60

\* ------------------------------------------------------------------- state

VARIABLES
    now,           \* the clock (Utc::now / OffsetDateTime::now_utc), seconds
    provider,      \* which provider the manager / the callers use
    tokens,        \* the provider's cache: cache key -> Token or NoToken
    issued,        \* number of tokens the endpoint has issued
    pc,            \* per caller: its position in get_token / token
    scopes,        \* per caller: the scope list of its call
    tok,           \* per caller: the local `token` of the call
    ret,           \* per caller: the result of its last returned call
    refresh_lock,  \* AuthManagerInner.refresh_lock: lock key -> mutex state
    bg,            \* background_refresh tasks in flight, per scope list
    writer,        \* tokio RwLock of a TokenProvider: is the write lock held
    callNo,        \* history: calls started per caller
    path,          \* history: the path the caller's call took, and whether it
                   \* invoked refresh_token (inline or by spawning background_refresh)
    seen,          \* history: greatest expires_at a call for the caller's scopes had
                   \* returned when the caller's call started
    disc,          \* provider(): the environment it runs in, its position, the
                   \* sources probed so far, the errors kept, its result
    credentials,   \* the credentials the provider was loaded with
    subject,       \* a Token or Claims value under inspection: how it was built
                   \* and what has_expired and Debug said of it
    load,          \* a credential being loaded: the input, the load path, the
                   \* provider or error it gave, what project_id answered and
                   \* the requests made
    http           \* one token fetch over HTTP: the attempts made, what the
                   \* transport answered, the result

vars == <<credentials, disc, subject, load, http, now, provider, tokens, issued, pc, scopes, tok, ret, refresh_lock, bg,
          writer, callNo, path, seen>>

\* ------------------------------------------------------------------ tokens

NoToken == [access_token |-> 0, expires_at |-> 0]

\* Faulty variant of from_string: the lifetime is taken as the expiry time.
from_string_no_clock(access_token, expires_in) ==
    [access_token |-> access_token, expires_at |-> expires_in]

\* Token::from_string / deserialize_time: expires_at = now + expires_in.
from_string(access_token, expires_in) ==
    [access_token |-> access_token, expires_at |-> now + expires_in]

\* Faulty variant of has_expired: the token is still good at the margin.
has_expired_strict(token) == token.expires_at - ExpiryMargin < now

\* Token::has_expired
has_expired(token) == token.expires_at - ExpiryMargin <= now

\* Token::expires_at
expires_at(token) == token.expires_at

\* `token.filter(|token| !token.has_expired())` is Some
Unexpired(token) == token /= NoToken /\ ~has_expired(token)

Ok(token) == [kind |-> "ok", token |-> token]
Err == [kind |-> "err", token |-> NoToken]
NoResult == [kind |-> "none", token |-> NoToken]

\* The call did not return: the task panicked.
Panicked == [kind |-> "panic", token |-> NoToken]

\* Credentials as loaded: token_uri / token_url is any string of the file.
GoodCredentials == [token_uri |-> "valid"]
LoadedCredentials == [token_uri : {"valid", "invalid"}]

\* --------------------------------------------------------------- providers

\* The ServiceAccount implementations an AuthenticationManager is built over.
ManagerProviders ==
    {"ConfigDefaultCredentials", "FlexibleCredentials", "ImpersonatedServiceAccount"}

\* The TokenProvider implementations with one token slot, and all of them.
SingleSlotProviders ==
    {"ConfigDefaultCredentials", "MetadataServiceAccount", "GCloudAuthorizedUser"}

TokenProviders == {"CustomServiceAccount", "ExternalAccount"} \cup SingleSlotProviders

\* ServiceAccount::get_style
get_style(p) ==
    IF p \in {"FlexibleCredentials", "ImpersonatedServiceAccount"}
    THEN "AccountAndScopes" ELSE "Account"

\* The one slot of a provider whose token does not depend on the scopes; for
\* ImpersonatedServiceAccount, the slot of its source_credentials.
Slot == <<0>>

Less(a, b) == a < b

\* The cache key a provider files the token for `s` under.
CacheKey(p, s) ==
    CASE p = "FlexibleCredentials" -> SortSeq(s, Less)
      [] p \in {"CustomServiceAccount", "ExternalAccount",
                 "ImpersonatedServiceAccount"} -> s
      [] OTHER -> Slot

CacheKeys == {Slot} \cup ScopeLists \cup {SortSeq(s, Less) : s \in ScopeLists}

\* ServiceAccount::get_token
get_token(s) == tokens[CacheKey(provider, s)]

\* ----------------------------------------------------------- refresh lock

\* RefreshLock::One holds one mutex, RefreshLock::ByScopes one per scope list.
One == <<0>>

LockKeys == {One} \cup ScopeLists

\* RefreshLock::new
RefreshLockNew(style) ==
    [k \in LockKeys |-> IF style = "Account" /\ k = One THEN "free" ELSE "absent"]

\* Faulty variant of lock_for_scopes: one mutex whatever the style.
lock_for_scopes_one(s) == One

\* RefreshLock::lock_for_scopes: the key of the mutex returned for `s`.
lock_for_scopes(s) ==
    IF get_style(provider) = "Account" THEN One ELSE s

\* Faulty variant of CanLock: a mutex that never excludes.
CanLockAlways(s) == TRUE

\* The mutex of lock_for_scopes(s) can be locked: it is not held (a mutex that
\* is not in the map yet is created unlocked).
CanLock(s) == refresh_lock[lock_for_scopes(s)] /= "held"

\* ------------------------------------------------------------------ callers

SumTo[n \in 0..NumCallers] == IF n = 0 THEN 0 ELSE callNo[n] + SumTo[n - 1]

\* Calls started so far, over all callers.
CallsStarted == SumTo[NumCallers]

\* Callers are interchangeable tasks: they are numbered in the order of their
\* first calls.
InOrder(c) == IF c = 1 THEN TRUE ELSE callNo[c - 1] >= 1

\* The callers whose last call has returned Ok for scopes s.
ReturnedOk(s) ==
    {c \in Callers : pc[c] = "idle" /\ ret[c].kind = "ok" /\ scopes[c] = s}

\* The latest expires_at among the tokens returned to the callers in S.
MaxExpiry(S) ==
    IF S = {} THEN 0
    ELSE CHOOSE m \in {expires_at(ret[c].token) : c \in S} :
             \A c \in S : m >= expires_at(ret[c].token)

\* The call of caller c returns `result`.
Return(c, result) ==
    /\ pc' = [pc EXCEPT ![c] = "idle"]
    /\ ret' = [ret EXCEPT ![c] = result]
    /\ tok' = [tok EXCEPT ![c] = NoToken]

\* Caller c starts a call with scopes s.
StartCall(c, s) ==
    /\ pc[c] = "idle"
    /\ callNo' = [callNo EXCEPT ![c] = @ + 1]
    /\ scopes' = [scopes EXCEPT ![c] = s]
    /\ seen' = [seen EXCEPT ![c] = MaxExpiry(ReturnedOk(s))]

\* ------------------------------------------------- AuthenticationManager

\* get_token, lines 110-116 and 131-135: read the cache; return a token that
\* stays valid for a while, go on to the background refresh for one that
\* expires soon, go on to the inline refresh otherwise.
get_token_fast(c, s) ==
    /\ StartCall(c, s)
    /\ LET token == get_token(s) IN
       IF Unexpired(token)
       THEN /\ path' = [path EXCEPT ![c] = "fast"]
            /\ IF expires_at(token) - now < RefreshAhead
               THEN /\ pc' = [pc EXCEPT ![c] = "soon"]
                    /\ tok' = [tok EXCEPT ![c] = token]
                    /\ ret' = [ret EXCEPT ![c] = NoResult]
               ELSE Return(c, Ok(token))
       ELSE /\ path' = [path EXCEPT ![c] = "slow"]
            /\ pc' = [pc EXCEPT ![c] = "wait_lock"]
            /\ ret' = [ret EXCEPT ![c] = NoResult]
            /\ tok' = tok
    /\ UNCHANGED <<credentials, disc, subject, load, http, now, provider, tokens, issued, refresh_lock, bg, writer>>

\* A caller calls get_token(s), within the bound on calls.
GetToken(c, s) == CallsStarted < MaxCalls /\ InOrder(c) /\ get_token_fast(c, s)

\* Faulty variant of TryLockSpawn: `lock_owned().await` in place of try_lock_owned.
TryLockSpawnBlocking(c) ==
    /\ pc[c] = "soon"
    /\ CanLock(scopes[c])
    /\ refresh_lock' = [refresh_lock EXCEPT ![lock_for_scopes(scopes[c])] = "held"]
    /\ bg' = [bg EXCEPT ![scopes[c]] = @ + 1]
    /\ path' = [path EXCEPT ![c] = "spawn"]
    /\ Return(c, Ok(tok[c]))
    /\ UNCHANGED <<credentials, disc, subject, load, http, now, provider, tokens, issued, scopes, writer, callNo, seen>>

\* Faulty variant of TryLockSpawn: a refresh already in flight is reported to
\* the caller as an error.
TryLockSpawnErrWhenBusy(c) ==
    /\ pc[c] = "soon"
    /\ LET s == scopes[c] IN
       IF CanLock(s)
       THEN /\ refresh_lock' = [refresh_lock EXCEPT ![lock_for_scopes(s)] = "held"]
            /\ bg' = [bg EXCEPT ![s] = @ + 1]
            /\ path' = [path EXCEPT ![c] = "spawn"]
            /\ Return(c, Ok(tok[c]))
       ELSE /\ refresh_lock' = refresh_lock
            /\ UNCHANGED <<bg, path>>
            /\ Return(c, Err)
    /\ UNCHANGED <<credentials, disc, subject, load, http, now, provider, tokens, issued, scopes, writer, callNo, seen>>

\* get_token, lines 117-131: try_lock_owned on the mutex of the scopes; spawn
\* background_refresh with the guard when it is free; return the token.
TryLockSpawn(c) ==
    /\ pc[c] = "soon"
    /\ LET s == scopes[c] IN
       IF CanLock(s)
       THEN /\ refresh_lock' = [refresh_lock EXCEPT ![lock_for_scopes(s)] = "held"]
            /\ bg' = [bg EXCEPT ![s] = @ + 1]
            /\ path' = [path EXCEPT ![c] = "spawn"]
       ELSE /\ refresh_lock' = refresh_lock
            /\ UNCHANGED <<bg, path>>
    /\ Return(c, Ok(tok[c]))
    /\ UNCHANGED <<credentials, disc, subject, load, http, now, provider, tokens, issued, scopes, writer, callNo, seen>>

\* Faulty variant of Recheck: no second look at the cache.
RecheckSkipped(s) == FALSE

\* get_token, lines 138-142: "Check if refresh happened while we were
\* waiting": the cache holds an unexpired token for the scopes.
Recheck(s) == Unexpired(get_token(s))

\* get_token, lines 135-147: lock the mutex of the scopes, read the cache
\* again, return an unexpired token or call refresh_token holding the guard.
InlineLock(c) ==
    /\ pc[c] = "wait_lock"
    /\ LET s == scopes[c]
           token == get_token(s) IN
       /\ CanLock(s)
       /\ IF Recheck(s)
          THEN /\ refresh_lock' = [refresh_lock EXCEPT ![lock_for_scopes(s)] = "free"]
               /\ Return(c, Ok(token))
               /\ path' = path
          ELSE /\ refresh_lock' = [refresh_lock EXCEPT ![lock_for_scopes(s)] = "held"]
               /\ pc' = [pc EXCEPT ![c] = "refreshing"]
               /\ path' = [path EXCEPT ![c] = "refresh"]
               /\ UNCHANGED <<tok, ret>>
    /\ UNCHANGED <<credentials, disc, subject, load, http, now, provider, tokens, issued, scopes, bg, writer, callNo, seen>>

\* ServiceAccount::refresh_token succeeds: the endpoint answers expires_in,
\* the token is put in the cache under the provider's key and returned.
\* ImpersonatedServiceAccount::refresh_token first refreshes its
\* source_credentials, which keep their new token, and then asks for the
\* impersonated one: two requests, two tokens.
Requests(p) == IF p = "ImpersonatedServiceAccount" THEN 2 ELSE 1

\* The token a successful refresh_token returns.
Refreshed(expires_in) == from_string(issued + Requests(provider), expires_in)

\* The source_credentials of ImpersonatedServiceAccount refresh their token.
SourceInstall(expires_in) ==
    [tokens EXCEPT ![Slot] = from_string(issued + 1, expires_in)]

\* Faulty variant of RefreshInstall: the token is filed under the scopes as
\* given, whatever key get_token reads.
RefreshInstallAsGiven(s, expires_in) ==
    /\ issued' = issued + Requests(provider)
    /\ tokens' = [(IF provider = "ImpersonatedServiceAccount"
                   THEN SourceInstall(expires_in) ELSE tokens)
                  EXCEPT ![s] = Refreshed(expires_in)]

\* refresh_token stores the token it returns: insert(key, token.clone()).
RefreshInstall(s, expires_in) ==
    /\ issued' = issued + Requests(provider)
    /\ tokens' = [(IF provider = "ImpersonatedServiceAccount"
                   THEN SourceInstall(expires_in) ELSE tokens)
                  EXCEPT ![CacheKey(provider, s)] = Refreshed(expires_in)]

\* get_token, lines 144-148: the inline refresh_token returns Ok; the guard drops.
InlineRefreshOk(c, expires_in) ==
    /\ pc[c] = "refreshing"
    /\ RefreshInstall(scopes[c], expires_in)
    /\ refresh_lock' = [refresh_lock EXCEPT ![lock_for_scopes(scopes[c])] = "free"]
    /\ Return(c, Ok(Refreshed(expires_in)))
    /\ UNCHANGED <<credentials, disc, subject, load, http, now, provider, scopes, bg, writer, callNo, path, seen>>

\* Faulty variant of InlineRefreshErr: the failure evicts the stale entry.
InlineRefreshErrEvicts(c) ==
    /\ pc[c] = "refreshing"
    /\ tokens' = [tokens EXCEPT ![CacheKey(provider, scopes[c])] = NoToken]
    /\ refresh_lock' = [refresh_lock EXCEPT ![lock_for_scopes(scopes[c])] = "free"]
    /\ Return(c, Err)
    /\ UNCHANGED <<credentials, disc, subject, load, http, now, provider, issued, scopes, bg, writer, callNo, path, seen>>

\* get_token, lines 144-148: the inline refresh_token returns Err; the guard drops.
InlineRefreshErr(c) ==
    /\ pc[c] = "refreshing"
    /\ refresh_lock' = [refresh_lock EXCEPT ![lock_for_scopes(scopes[c])] = "free"]
    /\ Return(c, Err)
    /\ UNCHANGED <<credentials, disc, subject, load, http, now, provider, tokens, issued, scopes, bg, writer, callNo, path, seen>>

\* get_token, lines 144-148, over ImpersonatedServiceAccount::refresh_token:
\* the source_credentials refresh, the impersonation request fails (lines
\* 106-109 pass, 158 or 162 return Err); the guard drops.
InlineImpersonationErr(c, expires_in) ==
    /\ pc[c] = "refreshing"
    /\ provider = "ImpersonatedServiceAccount"
    /\ issued' = issued + 1
    /\ tokens' = SourceInstall(expires_in)
    /\ refresh_lock' = [refresh_lock EXCEPT ![lock_for_scopes(scopes[c])] = "free"]
    /\ Return(c, Err)
    /\ UNCHANGED <<credentials, disc, subject, load, http, now, provider, scopes, bg, writer, callNo, path, seen>>

\* background_refresh: refresh_token returns Ok; the guard drops.
BackgroundRefreshOk(s, expires_in) ==
    /\ bg[s] > 0
    /\ RefreshInstall(s, expires_in)
    /\ bg' = [bg EXCEPT ![s] = @ - 1]
    /\ refresh_lock' = [refresh_lock EXCEPT ![lock_for_scopes(s)] = "free"]
    /\ UNCHANGED <<credentials, disc, subject, load, http, now, provider, pc, scopes, tok, ret, writer, callNo, path, seen>>

\* Faulty variant of BackgroundRefreshErr: the failed task leaks its guard.
BackgroundRefreshErrLeaksGuard(s) ==
    /\ bg[s] > 0
    /\ bg' = [bg EXCEPT ![s] = @ - 1]
    /\ UNCHANGED <<credentials, disc, subject, load, http, now, provider, tokens, issued, pc, scopes, tok, ret, writer, callNo,
                   path, seen, refresh_lock>>

\* background_refresh: refresh_token returns Err; the guard drops.
BackgroundRefreshErr(s) ==
    /\ bg[s] > 0
    /\ bg' = [bg EXCEPT ![s] = @ - 1]
    /\ refresh_lock' = [refresh_lock EXCEPT ![lock_for_scopes(s)] = "free"]
    /\ UNCHANGED <<credentials, disc, subject, load, http, now, provider, tokens, issued, pc, scopes, tok, ret, writer, callNo,
                   path, seen>>

\* background_refresh over ImpersonatedServiceAccount::refresh_token: the
\* source_credentials refresh, the impersonation request fails.
BackgroundImpersonationErr(s, expires_in) ==
    /\ bg[s] > 0
    /\ provider = "ImpersonatedServiceAccount"
    /\ issued' = issued + 1
    /\ tokens' = SourceInstall(expires_in)
    /\ bg' = [bg EXCEPT ![s] = @ - 1]
    /\ refresh_lock' = [refresh_lock EXCEPT ![lock_for_scopes(s)] = "free"]
    /\ UNCHANGED <<credentials, disc, subject, load, http, now, provider, pc, scopes, tok, ret, writer, callNo, path, seen>>

\* Time passes.
Tick(d) ==
    /\ now + d <= MaxTime
    /\ now' = now + d
    /\ UNCHANGED <<credentials, disc, subject, load, http, provider, tokens, issued, pc, scopes, tok, ret, refresh_lock, bg,
                   writer, callNo, path, seen>>

\* provider() is not running.
NoDiscovery == [pc |-> "none"]

\* No value is under inspection.
NoSubject == [kind |-> "none"]

\* No credential is being loaded.
NoLoad == [pc |-> "none"]

\* No token fetch is running.
NoHttp == [pc |-> "none"]

\* The caller-side state before any call.
InitCallers ==
    /\ now = 0
    /\ pc = [c \in Callers |-> "idle"]
    /\ scopes = [c \in Callers |-> <<>>]
    /\ tok = [c \in Callers |-> NoToken]
    /\ ret = [c \in Callers |-> NoResult]
    /\ callNo = [c \in Callers |-> 0]
    /\ path = [c \in Callers |-> "none"]
    /\ seen = [c \in Callers |-> 0]

\* AuthenticationManager::build over a provider: ConfigDefaultCredentials::new
\* fetches a first token, FlexibleCredentials starts with an empty map,
\* ImpersonatedServiceAccount with an empty map over source_credentials that
\* hold their first token.
Init ==
    /\ InitCallers
    /\ disc = NoDiscovery
    /\ subject = NoSubject
    /\ load = NoLoad
    /\ http = NoHttp
    /\ credentials = GoodCredentials
    /\ provider \in ManagerProviders
    /\ \E d \in Lifetimes :
         /\ tokens = [k \in CacheKeys |->
                        IF provider /= "FlexibleCredentials" /\ k = Slot
                        THEN [access_token |-> 1, expires_at |-> d]
                        ELSE NoToken]
         /\ issued = IF provider /= "FlexibleCredentials" THEN 1 ELSE 0
    /\ refresh_lock = RefreshLockNew(get_style(provider))
    /\ bg = [s \in ScopeLists |-> 0]
    /\ writer = FALSE

\* ------------------------------------------------- TokenProvider::token

\* Faulty variant of Rechecks: no provider looks again.
RechecksNone(p) == FALSE

\* The provider double-checks the cache after it got the write lock
\* (external_account.rs:239-243); the others fetch at once.
Rechecks(p) == p = "ExternalAccount"

\* `self.tokens.read().await` completes: the write lock is not held.
read_ready == ~writer

\* `self.tokens.write().await` completes: the write lock is not held (read
\* guards are dropped within the statement that takes them).
write_ready == ~writer

\* token(): `self.tokens.read().await` waits while the write lock is held;
\* an unexpired token is returned, otherwise the call goes for the write lock.
token_read(c, s) ==
    /\ read_ready
    /\ StartCall(c, s)
    /\ LET token == get_token(s) IN
       IF Unexpired(token)
       THEN /\ path' = [path EXCEPT ![c] = "fast"]
            /\ Return(c, Ok(token))
       ELSE /\ path' = [path EXCEPT ![c] = "slow"]
            /\ pc' = [pc EXCEPT ![c] = "wait_write"]
            /\ ret' = [ret EXCEPT ![c] = NoResult]
            /\ tok' = tok
    /\ UNCHANGED <<credentials, disc, subject, load, http, now, provider, tokens, issued, refresh_lock, bg, writer>>

\* A caller calls token(s), within the bound on calls.
TokenRead(c, s) == CallsStarted < MaxCalls /\ InOrder(c) /\ token_read(c, s)

\* token(): `self.tokens.write().await`, then (ExternalAccount) the second
\* look at the cache, then fetch_token with the write lock held.
TokenWrite(c) ==
    /\ pc[c] = "wait_write"
    /\ write_ready
    /\ IF Rechecks(provider) /\ Recheck(scopes[c])
       THEN /\ Return(c, Ok(get_token(scopes[c])))
            /\ UNCHANGED <<writer, path>>
       ELSE /\ writer' = TRUE
            /\ pc' = [pc EXCEPT ![c] = "fetching"]
            /\ path' = [path EXCEPT ![c] = "refresh"]
            /\ UNCHANGED <<tok, ret>>
    /\ UNCHANGED <<credentials, disc, subject, load, http, now, provider, tokens, issued, scopes, refresh_lock, bg, callNo, seen>>

\* token(): fetch_token returns Ok; the token is put in the cache and
\* returned, the write guard drops.
FetchTokenOk(c, expires_in) ==
    /\ pc[c] = "fetching"
    /\ credentials.token_uri = "valid"
    /\ RefreshInstall(scopes[c], expires_in)
    /\ writer' = FALSE
    /\ Return(c, Ok(from_string(issued + 1, expires_in)))
    /\ UNCHANGED <<credentials, disc, subject, load, http, now, provider, scopes, refresh_lock, bg, callNo, path, seen>>

\* token(): fetch_token returns Err (`?`); the write guard drops.
FetchTokenErr(c) ==
    /\ pc[c] = "fetching"
    /\ writer' = FALSE
    /\ Return(c, Err)
    /\ UNCHANGED <<credentials, disc, subject, load, http, now, provider, tokens, issued, scopes, refresh_lock, bg, callNo,
                   path, seen>>

\* token(): fetch_token builds its request with
\* Request::post(token_uri).body(..).unwrap(), which panics when token_uri is
\* no URI; the task unwinds, the write guard drops.
FetchTokenPanic(c) ==
    /\ pc[c] = "fetching"
    /\ credentials.token_uri = "invalid"
    /\ writer' = FALSE
    /\ Return(c, Panicked)
    /\ UNCHANGED <<credentials, disc, subject, load, http, now, provider, tokens, issued, scopes, refresh_lock,
                   bg, callNo, path, seen>>

\* A provider after construction: the single-slot providers fetch a first
\* token in new(), the scope-keyed ones start with an empty map.
TPInit ==
    /\ InitCallers
    /\ disc = NoDiscovery
    /\ subject = NoSubject
    /\ load = NoLoad
    /\ http = NoHttp
    /\ provider \in TokenProviders
    /\ credentials \in (IF provider \in {"CustomServiceAccount", "ExternalAccount"}
                        THEN LoadedCredentials ELSE {GoodCredentials})
    /\ \E d \in Lifetimes :
         /\ tokens = [k \in CacheKeys |->
                        IF provider \in SingleSlotProviders /\ k = Slot
                        THEN [access_token |-> 1, expires_at |-> d]
                        ELSE NoToken]
         /\ issued = IF provider \in SingleSlotProviders THEN 1 ELSE 0
    /\ refresh_lock = RefreshLockNew("AccountAndScopes")
    /\ bg = [s \in ScopeLists |-> 0]
    /\ writer = FALSE

TPNext ==
    \/ \E c \in Callers, s \in ScopeLists : TokenRead(c, s)
    \/ \E c \in Callers : TokenWrite(c)
    \/ \E c \in Callers, d \in Lifetimes : FetchTokenOk(c, d)
    \/ \E c \in Callers : FetchTokenErr(c)
    \/ \E c \in Callers : FetchTokenPanic(c)
    \/ \E d \in TickSteps : Tick(d)

TPSpec == TPInit /\ [][TPNext]_vars

Next ==
    \/ \E c \in Callers, s \in ScopeLists : GetToken(c, s)
    \/ \E c \in Callers : TryLockSpawn(c)
    \/ \E c \in Callers : InlineLock(c)
    \/ \E c \in Callers, d \in Lifetimes : InlineRefreshOk(c, d)
    \/ \E c \in Callers : InlineRefreshErr(c)
    \/ \E c \in Callers, d \in Lifetimes : InlineImpersonationErr(c, d)
    \/ \E s \in ScopeLists, d \in Lifetimes : BackgroundRefreshOk(s, d)
    \/ \E s \in ScopeLists : BackgroundRefreshErr(s)
    \/ \E s \in ScopeLists, d \in Lifetimes : BackgroundImpersonationErr(s, d)
    \/ \E d \in TickSteps : Tick(d)

Spec == Init /\ [][Next]_vars

\* What the runtime and the endpoints owe a call that has started. A polled
\* get_token goes on from the fast path (lines 117-131); tokio's Mutex hands
\* the lock to its waiters in the order they asked for it, so a waiter that
\* can lock again and again does lock (line 136); every request refresh_token
\* makes is answered or fails, and it makes at most RETRY_COUNT of them, so
\* refresh_token returns, inline (lines 144-147) and in the spawned task
\* (lines 150-164). lock_for_scopes (lines 195-211) has no await between
\* locking the map and returning, so the map mutex is free whenever a task
\* waits for a per-scope mutex or for a refresh.
InlineReturns(c) ==
    \/ \E d \in Lifetimes : InlineRefreshOk(c, d)
    \/ InlineRefreshErr(c)
    \/ \E d \in Lifetimes : InlineImpersonationErr(c, d)

BackgroundReturns(s) ==
    \/ \E d \in Lifetimes : BackgroundRefreshOk(s, d)
    \/ BackgroundRefreshErr(s)
    \/ \E d \in Lifetimes : BackgroundImpersonationErr(s, d)

Fairness ==
    /\ \A c \in Callers : WF_vars(TryLockSpawn(c))
    /\ \A c \in Callers : SF_vars(InlineLock(c))
    /\ \A c \in Callers : WF_vars(InlineReturns(c))
    /\ \A s \in ScopeLists : WF_vars(BackgroundReturns(s))

LiveSpec == Init /\ [][Next]_vars /\ Fairness

\* ------------------------------------------------- cancelled get_token

\* Calls started in all when callers may be cancelled: enough for one that
\* refreshes, one that is cancelled and one that goes on waiting.
MaxCancelCalls == 3

\* The future of a get_token call was dropped.
Cancelled == [kind |-> "cancelled", token |-> NoToken]

\* A caller calls get_token(s), within the bound on calls.
GetTokenCancellable(c, s) ==
    CallsStarted < MaxCancelCalls /\ InOrder(c) /\ get_token_fast(c, s)

\* Faulty variant of CancelWaiter: the refresh the waiter was waiting for is
\* dropped with it.
CancelWaiterAbortsRefresh(c) ==
    /\ pc[c] = "wait_lock"
    /\ pc' = [h \in Callers |->
                IF h = c \/ (pc[h] = "refreshing" /\ scopes[h] = scopes[c])
                THEN "idle" ELSE pc[h]]
    /\ ret' = [h \in Callers |->
                IF h = c \/ (pc[h] = "refreshing" /\ scopes[h] = scopes[c])
                THEN Cancelled ELSE ret[h]]
    /\ tok' = [tok EXCEPT ![c] = NoToken]
    /\ refresh_lock' = [refresh_lock EXCEPT ![lock_for_scopes(scopes[c])] = "free"]
    /\ path' = [path EXCEPT ![c] = "cancelled"]
    /\ UNCHANGED <<credentials, disc, subject, load, http, now, provider, tokens, issued, scopes, bg, writer, callNo, seen>>

\* get_token, line 136: the future of a caller that awaits `lock.lock()` is
\* dropped. The caller holds no guard yet; its place in the queue of the
\* mutex goes away and nothing else does.
CancelWaiter(c) ==
    /\ pc[c] = "wait_lock"
    /\ Return(c, Cancelled)
    /\ path' = [path EXCEPT ![c] = IF CanLock(scopes[c]) THEN "cancelled"
                                   ELSE "cancelled_waiting"]
    /\ UNCHANGED <<credentials, disc, subject, load, http, now, provider, tokens, issued, scopes, refresh_lock, bg, writer, callNo, seen>>

CancelNext ==
    \/ \E c \in Callers, s \in ScopeLists : GetTokenCancellable(c, s)
    \/ \E c \in Callers : TryLockSpawn(c)
    \/ \E c \in Callers : InlineLock(c)
    \/ \E c \in Callers, d \in Lifetimes : InlineRefreshOk(c, d)
    \/ \E c \in Callers : InlineRefreshErr(c)
    \/ \E s \in ScopeLists, d \in Lifetimes : BackgroundRefreshOk(s, d)
    \/ \E s \in ScopeLists : BackgroundRefreshErr(s)
    \/ \E c \in Callers : CancelWaiter(c)

CancelSpec == Init /\ [][CancelNext]_vars

\* Faulty variant of CancelHolder: the guard outlives the dropped future.
CancelHolderKeepsGuard(c) ==
    /\ pc[c] = "refreshing"
    /\ Return(c, Cancelled)
    /\ path' = [path EXCEPT ![c] = "cancelled_refreshing"]
    /\ UNCHANGED <<credentials, disc, subject, load, http, now, provider, tokens, issued, scopes, refresh_lock, bg, writer, callNo, seen>>

\* get_token, lines 144-147: the future of the caller that awaits
\* refresh_token is dropped. The fetch in flight is dropped with it before it
\* reaches the insert, and _guard is dropped, which unlocks the mutex.
CancelHolder(c) ==
    /\ pc[c] = "refreshing"
    /\ refresh_lock' = [refresh_lock EXCEPT ![lock_for_scopes(scopes[c])] = "free"]
    /\ Return(c, Cancelled)
    /\ path' = [path EXCEPT ![c] = "cancelled_refreshing"]
    /\ UNCHANGED <<credentials, disc, subject, load, http, now, provider, tokens, issued, scopes, bg, writer, callNo, seen>>

\* The same when the source_credentials of an ImpersonatedServiceAccount had
\* already refreshed their own token: that token stays with them.
CancelHolderAfterSource(c, expires_in) ==
    /\ pc[c] = "refreshing"
    /\ provider = "ImpersonatedServiceAccount"
    /\ issued' = issued + 1
    /\ tokens' = SourceInstall(expires_in)
    /\ refresh_lock' = [refresh_lock EXCEPT ![lock_for_scopes(scopes[c])] = "free"]
    /\ Return(c, Cancelled)
    /\ path' = [path EXCEPT ![c] = "cancelled_refreshing"]
    /\ UNCHANGED <<credentials, disc, subject, load, http, now, provider, scopes, bg, writer, callNo, seen>>

AbortNext ==
    \/ \E c \in Callers, s \in ScopeLists : GetTokenCancellable(c, s)
    \/ \E c \in Callers : TryLockSpawn(c)
    \/ \E c \in Callers : InlineLock(c)
    \/ \E c \in Callers, d \in Lifetimes : InlineRefreshOk(c, d)
    \/ \E c \in Callers : InlineRefreshErr(c)
    \/ \E s \in ScopeLists, d \in Lifetimes : BackgroundRefreshOk(s, d)
    \/ \E s \in ScopeLists : BackgroundRefreshErr(s)
    \/ \E c \in Callers : CancelHolder(c)
    \/ \E c \in Callers, d \in Lifetimes : CancelHolderAfterSource(c, d)

AbortSpec == Init /\ [][AbortNext]_vars

\* ------------------------------------------------------------- provider()

\* The credential sources in the order provider() probes them, and the
\* provider each one constructs.
Sources == <<"env", "user_default", "metadata", "gcloud">>

ProviderOf(src) ==
    CASE src = "env" -> "CustomServiceAccount"
      [] src = "user_default" -> "ConfigDefaultCredentials"
      [] src = "metadata" -> "MetadataServiceAccount"
      [] src = "gcloud" -> "GCloudAuthorizedUser"

\* What the environment holds for each source. GOOGLE_APPLICATION_CREDENTIALS:
\* unset, or naming a file that cannot be opened, cannot be parsed, whose
\* private key builds no signer, for which no HttpClient can be made, or
\* that is good.
EnvVarStates == {"unset", "open_fails", "parse_fails", "bad_key", "client_fails", "ok"}

\* HttpClient::new in provider().
ClientStates == {"ok", "fails"}

\* The user-default file: no config directory, no file, a bad file, a
\* refused first token, or good.
UserStates == {"ok", "no_config_dir", "open_fails", "parse_fails", "token_fails"}

\* The metadata server: no token, no project id, or good.
MetadataStates == {"ok", "token_fails", "project_id_fails"}

\* gcloud: not runnable, a failing command, or good.
GcloudStates == {"ok", "not_found", "command_failed"}

Environments ==
    [env : EnvVarStates, client : ClientStates, user_default : UserStates,
     metadata : MetadataStates, gcloud : GcloudStates]

\* The error a source's constructor returns in the environment e.
ErrorOf(src, e) == [source |-> src, kind |-> e[src]]

NoError == [source |-> "none", kind |-> "none"]

\* Error::NoAuthMethod(a, b, c)
NoAuthMethod(a, b, c) ==
    [source |-> "provider", kind |-> "NoAuthMethod", sub |-> <<a, b, c>>]

\* The sources probed once provider() leaves its current position.
ProbedNext == IF disc.pc = "client" THEN disc.probed ELSE Append(disc.probed, disc.pc)

\* provider() returns.
Finish(result) ==
    disc' = [disc EXCEPT !.pc = "done", !.result = result, !.probed = ProbedNext]

\* provider() keeps the error of the source it is at and goes on to `next`.
FallThrough(next) ==
    disc' = [disc EXCEPT !.pc = next,
                         !.probed = ProbedNext,
                         !.errors = IF disc.pc \in {"client", "env"} THEN @
                                    ELSE [@ EXCEPT ![disc.pc] = ErrorOf(disc.pc, disc.e)]]

Others == <<credentials, subject, load, http, now, provider, tokens, issued, pc, scopes, tok, ret, refresh_lock, bg,
            writer, callNo, path, seen>>

\* Faulty variant of FromEnv: a variable that names a bad file is passed over.
FromEnvLenient ==
    /\ disc.pc = "env"
    /\ IF disc.e.env = "ok"
       THEN Finish([kind |-> "ok", provider |-> ProviderOf("env")])
       ELSE FallThrough("client")
    /\ UNCHANGED Others

\* lib.rs line 126: CustomServiceAccount::from_env()?
FromEnv ==
    /\ disc.pc = "env"
    /\ CASE disc.e.env = "unset" -> FallThrough("client")
         [] disc.e.env = "ok" -> Finish([kind |-> "ok", provider |-> ProviderOf("env")])
         [] OTHER -> Finish([kind |-> "err", error |-> ErrorOf("env", disc.e)])
    /\ UNCHANGED Others

\* lib.rs line 129: HttpClient::new()?
NewClient ==
    /\ disc.pc = "client"
    /\ IF disc.e.client = "ok"
       THEN FallThrough("user_default")
       ELSE Finish([kind |-> "err", error |-> [source |-> "client", kind |-> "fails"]])
    /\ UNCHANGED Others

\* Faulty variant of Probe: the next source is tried although this one is good.
ProbeAll(src, next) ==
    /\ disc.pc = src
    /\ FallThrough(next)
    /\ UNCHANGED Others

\* lib.rs lines 130-152: construct the provider of src; return it, or keep
\* the error and go on.
Probe(src, next) ==
    /\ disc.pc = src
    /\ IF disc.e[src] = "ok"
       THEN Finish([kind |-> "ok", provider |-> ProviderOf(src)])
       ELSE FallThrough(next)
    /\ UNCHANGED Others

\* lib.rs lines 154-158: NoAuthMethod(gcloud_error, default_service_error,
\* default_user_error)
NoAuthMethodOf(errors) ==
    NoAuthMethod(errors["gcloud"], errors["metadata"], errors["user_default"])

\* lib.rs lines 154-158: every probe failed.
AllFailed ==
    /\ disc.pc = "none_left"
    /\ disc' = [disc EXCEPT !.pc = "done",
                            !.result = [kind |-> "err",
                                        error |-> NoAuthMethodOf(disc.errors)]]
    /\ UNCHANGED Others

\* provider() is called in some environment.
ProviderInit ==
    /\ InitCallers
    /\ credentials = GoodCredentials
    /\ provider = "none"
    /\ tokens = [k \in CacheKeys |-> NoToken]
    /\ issued = 0
    /\ refresh_lock = RefreshLockNew("Account")
    /\ bg = [s \in ScopeLists |-> 0]
    /\ writer = FALSE
    /\ subject = NoSubject
    /\ load = NoLoad
    /\ http = NoHttp
    /\ \E e \in Environments :
          disc = [pc |-> "env", e |-> e, probed |-> <<>>,
                  errors |-> [src \in {"user_default", "metadata", "gcloud"} |-> NoError],
                  result |-> [kind |-> "none"]]

ProviderNext ==
    \/ FromEnv
    \/ NewClient
    \/ Probe("user_default", "metadata")
    \/ Probe("metadata", "gcloud")
    \/ Probe("gcloud", "none_left")
    \/ AllFailed

ProviderSpec == ProviderInit /\ [][ProviderNext]_vars

\* ------------------------------------------------ Token and Claims values

\* Access tokens a token response may carry.
AccessTokens == {"abc123", "xyz789"}

\* expires_in values a Token is built from, in seconds. A response carries
\* an i64, so zero and negative values occur as well.
ExpiresIn == {-5, 0, 10, 20, 25, 40}

\* The clock advances in steps of these sizes while a value is inspected.
ValueTickSteps == {5}

\* deserialize_time: expires_at = now + seconds_from_now.
deserialize_time(seconds_from_now) == now + seconds_from_now

\* serde's Deserialize for Token: InnerToken with expires_in read through
\* deserialize_time.
deserialize(access_token, expires_in) ==
    [access_token |-> access_token, expires_at |-> deserialize_time(expires_in)]

\* Nothing was rendered.
NoRendering == [name |-> "none", access_token |-> "none", expires_at |-> 0]

\* Faulty variant of fmt: what #[derive(Debug)] would print.
fmt_derived(token) ==
    [name |-> "Token", access_token |-> token.access_token,
     expires_at |-> token.expires_at]

\* impl fmt::Debug for Token: the struct name and the two fields printed.
fmt(token) ==
    [name |-> "Token", access_token |-> "****", expires_at |-> token.expires_at]

\* The text pieces of a rendering include the string a.
Contains(rendering, a) == rendering.name = a \/ rendering.access_token = a

\* Claims::new joins the scopes with single spaces.
RECURSIVE JoinScopes(_)
JoinScopes(s) ==
    IF Len(s) = 0 THEN <<>>
    ELSE IF Len(s) = 1 THEN <<s[1]>>
    ELSE <<s[1], " ">> \o JoinScopes(Tail(s))

\* Faulty variant of Claims_new: the full hour.
Claims_new_hour(s) ==
    LET iat == now
    IN  [iat |-> iat, exp |-> iat + 3600, scope |-> JoinScopes(s)]

\* Claims::new (iss, aud and sub are copied from the arguments).
Claims_new(s) ==
    LET iat == now
    IN  [iat |-> iat, exp |-> iat + 3600 - 5, scope |-> JoinScopes(s)]

\* Every variable but subject.
Rest == <<credentials, disc, load, http, now, provider, tokens, issued, pc, scopes, tok, ret,
          refresh_lock, bg, writer, callNo, path, seen>>

\* A Token just built from expires_in = d.
Built(token, via, d) ==
    [kind |-> "token", token |-> token, via |-> via, expires_in |-> d, born |-> now,
     asked |-> FALSE, askedAt |-> 0, expired |-> FALSE, debug |-> NoRendering]

\* Token::from_string(a, d)
TokenFromString(a, d) ==
    /\ subject' = Built(from_string(a, d), "from_string", d)
    /\ UNCHANGED Rest

\* A token response {"access_token": a, "expires_in": d} is deserialized.
TokenDeserialize(a, d) ==
    /\ subject' = Built(deserialize(a, d), "deserialize", d)
    /\ UNCHANGED Rest

\* token.has_expired()
HasExpired ==
    /\ subject.kind = "token"
    /\ subject' = [subject EXCEPT !.asked = TRUE, !.askedAt = now,
                                  !.expired = has_expired(subject.token)]
    /\ UNCHANGED Rest

\* format!("{:?}", token)
DebugToken ==
    /\ subject.kind = "token"
    /\ subject' = [subject EXCEPT !.debug = fmt(subject.token)]
    /\ UNCHANGED Rest

\* Claims::new(key, s, sub)
NewClaims(s) ==
    /\ subject' = [kind |-> "claims", claims |-> Claims_new(s)]
    /\ UNCHANGED Rest

\* No provider is in use; values are built and inspected as time passes.
ValueInit ==
    /\ InitCallers
    /\ provider = "none"
    /\ tokens = [k \in CacheKeys |-> NoToken]
    /\ issued = 0
    /\ refresh_lock = RefreshLockNew("Account")
    /\ bg = [s \in ScopeLists |-> 0]
    /\ writer = FALSE
    /\ credentials = GoodCredentials
    /\ disc = NoDiscovery
    /\ subject = NoSubject
    /\ load = NoLoad
    /\ http = NoHttp

ValueNext ==
    \/ \E a \in AccessTokens, d \in ExpiresIn : TokenFromString(a, d)
    \/ \E a \in AccessTokens, d \in ExpiresIn : TokenDeserialize(a, d)
    \/ HasExpired
    \/ DebugToken
    \/ \E s \in ScopeLists : NewClaims(s)
    \/ \E d \in ValueTickSteps : Tick(d)

ValueSpec == ValueInit /\ [][ValueNext]_vars

\* ---------------------------------------------------- loading credentials

\* An optional JSON member that is not there.
Absent == "absent"

\* The values the optional members project_id and quota_project_id take.
ProjectIds == {Absent, "p"}
QuotaProjectIds == {Absent, "q"}

\* No source_credentials member.
NoDoc == [type |-> Absent]

\* Credential JSON objects without source_credentials. `type` is the value of
\* the "type" member, `fields` names the credential kind whose required
\* members the object carries.
LeafDocs ==
    [type : {"service_account", "authorized_user", "unknown"},
     fields : {"service_account", "authorized_user"},
     project_id : ProjectIds, quota_project_id : QuotaProjectIds, source : {NoDoc}]

\* impersonated_service_account objects whose source_credentials are in S.
ImpersonatedOver(S) ==
    [type : {"impersonated_service_account"}, fields : {"impersonated"},
     project_id : {Absent}, quota_project_id : {Absent}, source : S]

\* The credential files a load may meet: plain, impersonated, and
\* impersonated over impersonated.
Docs ==
    LeafDocs \cup ImpersonatedOver(LeafDocs)
             \cup ImpersonatedOver(ImpersonatedOver(LeafDocs))

\* #[serde(tag = "type")] enum FlexibleCredentialSource: the variant is chosen
\* by "type", its members are then required; source_credentials is parsed the
\* same way.
RECURSIVE parse_flexible(_)
parse_flexible(doc) ==
    CASE doc.type = "service_account" ->
            IF doc.fields = "service_account" THEN "ok" ELSE "missing field"
      [] doc.type = "authorized_user" ->
            IF doc.fields = "authorized_user" THEN "ok" ELSE "missing field"
      [] doc.type = "impersonated_service_account" ->
            IF doc.fields = "impersonated" THEN parse_flexible(doc.source)
            ELSE "missing field"
      [] OTHER -> "unknown variant"

\* #[derive(Deserialize)] struct ApplicationCredentials: project_id,
\* private_key, client_email, token_uri; other members, "type" among them,
\* are ignored.
parse_application_credentials(doc) ==
    IF doc.fields = "service_account" THEN "ok" ELSE "missing field"

\* #[derive(Deserialize)] struct UserCredentials: client_id, client_secret,
\* refresh_token, an optional quota_project_id, and "type" as any string.
parse_user_credentials(doc) ==
    IF doc.fields = "authorized_user" THEN "ok" ELSE "missing field"

\* Results of loading and of project_id().
Loaded(p) == [kind |-> "provider", provider |-> p]
LoadErr(error, cause) == [kind |-> "err", error |-> error, cause |-> cause]
OkId(id) == [kind |-> "ok", value |-> id]
ErrId(error) == [kind |-> "err", error |-> error]
NoAnswer == [kind |-> "none"]

\* FlexibleCredentialSource::project_id
RECURSIVE source_project_id(_)
source_project_id(doc) ==
    CASE doc.type = "service_account" ->
            IF doc.quota_project_id /= Absent THEN doc.quota_project_id
            ELSE doc.project_id
      [] doc.type = "authorized_user" -> doc.quota_project_id
      [] doc.type = "impersonated_service_account" -> source_project_id(doc.source)

\* The providers a load constructs.
FlexibleCredentialsOf(doc) ==
    [name |-> "FlexibleCredentials", credentials |-> doc,
     project_id |-> source_project_id(doc)]
CustomServiceAccountOf(doc) == [name |-> "CustomServiceAccount", credentials |-> doc]
ConfigDefaultCredentialsOf(doc) == [name |-> "ConfigDefaultCredentials", credentials |-> doc]
ImpersonatedServiceAccountOf(src) == [name |-> "ImpersonatedServiceAccount", source |-> src]

\* ServiceAccount::project_id / TokenProvider::project_id of a provider built
\* from a credential file.
RECURSIVE project_id(_)
project_id(p) ==
    CASE p.name = "FlexibleCredentials" ->
            IF p.project_id /= Absent THEN OkId(p.project_id)
            ELSE ErrId("ProjectIdNotFound")
      [] p.name = "CustomServiceAccount" ->
            IF p.credentials.project_id /= Absent THEN OkId(p.credentials.project_id)
            ELSE ErrId("no project ID in application credentials")
      [] p.name = "ConfigDefaultCredentials" ->
            IF p.credentials.quota_project_id /= Absent
            THEN OkId(p.credentials.quota_project_id)
            ELSE ErrId("NoProjectId")
      [] p.name = "ImpersonatedServiceAccount" -> project_id(p.source)

\* The ways a credential file is turned into a provider.
LoadPaths ==
    {"FlexibleCredentials::from_json",
     "FlexibleCredentialSource::try_into_service_account",
     "CustomServiceAccount::from_env",
     "ConfigDefaultCredentials::new"}

\* What a load yields: the result and the token requests it made.
Yield(result, requests) == [result |-> result, requests |-> requests]

\* ConfigDefaultCredentials is built with a first token; the endpoint
\* answers with one or refuses.
user_provider(doc, endpoint) ==
    IF endpoint = "ok" THEN Yield(Loaded(ConfigDefaultCredentialsOf(doc)), 1)
    ELSE Yield(LoadErr("ServerUnavailable", "token endpoint"), 1)

\* FlexibleCredentials::from_json
from_json(doc) ==
    IF parse_flexible(doc) = "ok"
    THEN Yield(Loaded(FlexibleCredentialsOf(doc)), 0)
    ELSE Yield(LoadErr("CustomServiceAccountCredentials", parse_flexible(doc)), 0)

\* FlexibleCredentialSource::try_into_service_account on a parsed source.
try_into_service_account(doc, endpoint) ==
    CASE doc.type = "service_account" -> Yield(Loaded(CustomServiceAccountOf(doc)), 0)
      [] doc.type = "authorized_user" -> user_provider(doc, endpoint)
      [] doc.type = "impersonated_service_account" ->
            CASE doc.source.type = "authorized_user" ->
                    LET src == user_provider(doc.source, endpoint)
                    IN  IF src.result.kind = "err" THEN src
                        ELSE Yield(Loaded(ImpersonatedServiceAccountOf(src.result.provider)),
                                   src.requests)
              [] doc.source.type = "service_account" ->
                    Yield(Loaded(ImpersonatedServiceAccountOf(
                                    CustomServiceAccountOf(doc.source))), 0)
              [] doc.source.type = "impersonated_service_account" ->
                    Yield(LoadErr("NestedImpersonation", "nested"), 0)

\* FlexibleCredentialSource::from_file, then try_into_service_account.
from_file_into_service_account(doc, endpoint) ==
    IF parse_flexible(doc) = "ok" THEN try_into_service_account(doc, endpoint)
    ELSE Yield(LoadErr("CustomServiceAccountCredentials", parse_flexible(doc)), 0)

\* CustomServiceAccount::from_env with the variable set:
\* ApplicationCredentials::from_file, then CustomServiceAccount::new.
from_env(doc) ==
    IF parse_application_credentials(doc) = "ok"
    THEN Yield(Loaded(CustomServiceAccountOf(doc)), 0)
    ELSE Yield(LoadErr("Json", parse_application_credentials(doc)), 0)

\* ConfigDefaultCredentials::new
config_default_credentials_new(doc, endpoint) ==
    IF parse_user_credentials(doc) = "ok" THEN user_provider(doc, endpoint)
    ELSE Yield(LoadErr("UserProfileFormat", parse_user_credentials(doc)), 0)

\* The load along a path.
load_via(via, doc, endpoint) ==
    CASE via = "FlexibleCredentials::from_json" -> from_json(doc)
      [] via = "FlexibleCredentialSource::try_into_service_account" ->
            from_file_into_service_account(doc, endpoint)
      [] via = "CustomServiceAccount::from_env" -> from_env(doc)
      [] via = "ConfigDefaultCredentials::new" ->
            config_default_credentials_new(doc, endpoint)

\* An optional value that is there, and one that is not.
Some(v) == [some |-> TRUE, value |-> v]
NoValue == [some |-> FALSE]

\* The bytes line feed and carriage return.
LF == "LF"
CR == "CR"

\* A byte that is not valid UTF-8.
InvalidByte == "0xFF"

\* Whether bytes are valid UTF-8 (str::from_utf8 / String::from_utf8).
from_utf8_ok(bytes) == \A i \in 1..Len(bytes) : bytes[i] /= InvalidByte

\* What running `gcloud config get-value project` may give: gcloud cannot be
\* run, it exits with a failure, or it succeeds with some output.
GcloudOutcomes ==
    [status : {"not_found", "failed"}, stdout : {<<>>}]
    \cup [status : {"success"},
          stdout : {<<>>, <<LF>>, <<"p">>, <<"p", LF>>, <<"p", " ", CR, LF>>,
                    <<" ", "p", LF>>, <<InvalidByte, LF>>}]

\* run: the trailing bytes b' ', b'\r' and b'\n' are popped off stdout.
RECURSIVE pop_trailing(_)
pop_trailing(stdout) ==
    IF stdout /= <<>> /\ stdout[Len(stdout)] \in {" ", CR, LF}
    THEN pop_trailing(SubSeq(stdout, 1, Len(stdout) - 1))
    ELSE stdout

\* run(cmd) in gcloud_authorized_user.rs
run(outcome) ==
    CASE outcome.status = "not_found" -> ErrId("failed to run gcloud")
      [] outcome.status = "failed" -> ErrId("running gcloud command failed")
      [] outcome.status = "success" ->
            IF from_utf8_ok(pop_trailing(outcome.stdout))
            THEN OkId(pop_trailing(outcome.stdout))
            ELSE ErrId("output from gcloud is not UTF-8")

\* GCloudAuthorizedUser::new: the token command first, then
\* run(&["config", "get-value", "project"]).ok()
gcloud_new(endpoint, outcome) ==
    IF endpoint /= "ok" THEN Yield(LoadErr("Str", "running gcloud command failed"), 0)
    ELSE Yield(Loaded([name |-> "GCloudAuthorizedUser",
                       project_id |-> IF run(outcome).kind = "ok"
                                      THEN Some(run(outcome).value) ELSE NoValue]), 0)

\* What the metadata server answers to the project-id request: no answer, or
\* a body.
MetadataBodies ==
    {[kind |-> "error", bytes |-> <<>>]}
    \cup [kind : {"body"}, bytes : {<<>>, <<"p">>, <<InvalidByte>>}]

\* MetadataServiceAccount::with_client (metadata_service_account.rs): the
\* token, then the project id, which is kept.
metadata_with_client(endpoint, body) ==
    IF endpoint /= "ok" THEN Yield(LoadErr("ServerUnavailable", "token endpoint"), 1)
    ELSE IF body.kind = "error" THEN Yield(LoadErr("Http", "project id request"), 2)
    ELSE IF ~from_utf8_ok(body.bytes)
    THEN Yield(LoadErr("Str", "received invalid UTF-8 project ID"), 2)
    ELSE IF body.bytes = <<>> THEN Yield(LoadErr("Str", "empty project ID"), 2)
    ELSE Yield(Loaded([name |-> "metadata_service_account::MetadataServiceAccount",
                       project_id |-> Some(body.bytes)]), 2)

\* MetadataServiceAccount::new (default_service_account.rs): the token only.
metadata_new(endpoint) ==
    IF endpoint /= "ok" THEN Yield(LoadErr("ServerUnavailable", "token endpoint"), 1)
    ELSE Yield(Loaded([name |-> "default_service_account::MetadataServiceAccount"]), 1)

\* MetadataServiceAccount::project_id (default_service_account.rs) when the
\* server answers its request with body.
metadata_project_id(body) ==
    IF body.kind = "error" THEN ErrId("ConnectionError")
    ELSE IF from_utf8_ok(body.bytes) THEN OkId(body.bytes)
    ELSE ErrId("ProjectIdNonUtf8")

\* GCloudAuthorizedUser::project_id and MetadataServiceAccount::project_id
\* (metadata_service_account.rs): the value kept at construction.
kept_project_id(p) ==
    IF p.project_id.some THEN OkId(p.project_id.value)
    ELSE ErrId("failed to get project ID from gcloud")

\* The providers built from the environment rather than from a file.
EnvPaths ==
    {"GCloudAuthorizedUser::new",
     "metadata_service_account::MetadataServiceAccount::with_client",
     "default_service_account::MetadataServiceAccount::new"}

\* What the environment holds for a path.
EnvsOf(via) ==
    CASE via = "GCloudAuthorizedUser::new" -> GcloudOutcomes
      [] via = "metadata_service_account::MetadataServiceAccount::with_client" ->
            MetadataBodies
      [] OTHER -> {[kind |-> "none"]}

\* The construction along an environment path.
construct_via(via, endpoint, env) ==
    CASE via = "GCloudAuthorizedUser::new" -> gcloud_new(endpoint, env)
      [] via = "metadata_service_account::MetadataServiceAccount::with_client" ->
            metadata_with_client(endpoint, env)
      [] via = "default_service_account::MetadataServiceAccount::new" ->
            metadata_new(endpoint)

\* The provider holds a token once it is built.
BuiltWithToken(result) ==
    /\ result.kind = "provider"
    /\ result.provider.name \in
          {"ConfigDefaultCredentials", "GCloudAuthorizedUser",
           "metadata_service_account::MetadataServiceAccount",
           "default_service_account::MetadataServiceAccount"}

\* project_id() is called at most this often on one provider.
MaxProjectIdCalls == 2

\* Token requests one refresh_token of a provider sends, or none when
\* FlexibleCredentialSource::refresh_token meets an impersonation over an
\* impersonation and returns NestedImpersonation before any request, and
\* none for gcloud, which runs a command.
refresh_requests(p) ==
    CASE p.name = "ImpersonatedServiceAccount" -> 2
      [] p.name = "FlexibleCredentials"
            /\ p.credentials.type = "impersonated_service_account" ->
            IF p.credentials.source.type = "impersonated_service_account" THEN 0 ELSE 2
      [] p.name = "GCloudAuthorizedUser" -> 0
      [] OTHER -> 1

\* Every variable but load.
LoadRest == <<credentials, disc, subject, http, now, provider, tokens, issued, pc, scopes,
              tok, ret, refresh_lock, bg, writer, callNo, path, seen>>

\* The credential file is loaded along the path, or the provider is built
\* from the environment.
LoadCredentials ==
    /\ load.pc = "start"
    /\ LET y == IF load.path \in LoadPaths
                THEN load_via(load.path, load.doc, load.endpoint)
                ELSE construct_via(load.path, load.endpoint, load.env)
       IN  load' = [load EXCEPT !.pc = "loaded", !.result = y.result,
                                !.requests = y.requests,
                                !.token = IF BuiltWithToken(y.result) THEN 1 ELSE 0]
    /\ UNCHANGED LoadRest

\* project_id() on a provider that answers from what it holds.
LoadedProjectId ==
    /\ load.pc = "loaded"
    /\ load.result.kind = "provider"
    /\ load.result.provider.name /= "default_service_account::MetadataServiceAccount"
    /\ load.calls < MaxProjectIdCalls
    /\ load' = [load EXCEPT !.calls = @ + 1,
                            !.pid = IF load.path \in LoadPaths
                                    THEN project_id(load.result.provider)
                                    ELSE kept_project_id(load.result.provider)]
    /\ UNCHANGED LoadRest

\* project_id() of MetadataServiceAccount (default_service_account.rs): a
\* request to the metadata server, answered with body.
RequestedProjectId(body) ==
    /\ load.pc = "loaded"
    /\ load.result.kind = "provider"
    /\ load.result.provider.name = "default_service_account::MetadataServiceAccount"
    /\ load.calls < MaxProjectIdCalls
    /\ load' = [load EXCEPT !.calls = @ + 1, !.requests = @ + 1,
                            !.pid = metadata_project_id(body)]
    /\ UNCHANGED LoadRest

\* refresh_token on the loaded provider.
LoadedRefreshToken ==
    /\ load.pc = "loaded"
    /\ load.result.kind = "provider"
    /\ load.refreshed = "no"
    /\ LET p == load.result.provider
           nested == /\ p.name = "FlexibleCredentials"
                     /\ p.credentials.type = "impersonated_service_account"
                     /\ p.credentials.source.type = "impersonated_service_account"
       IN  load' = [load EXCEPT !.requests = @ + refresh_requests(p),
                                !.refreshed = IF nested THEN "NestedImpersonation"
                                              ELSE load.endpoint,
                                !.token = IF ~nested /\ load.endpoint = "ok"
                                          THEN @ + 1 ELSE @]
    /\ UNCHANGED LoadRest

\* A credential file is about to be loaded along one of the paths, or a
\* provider is about to be built from the environment.
LoadInit ==
    /\ InitCallers
    /\ provider = "none"
    /\ tokens = [k \in CacheKeys |-> NoToken]
    /\ issued = 0
    /\ refresh_lock = RefreshLockNew("Account")
    /\ bg = [s \in ScopeLists |-> 0]
    /\ writer = FALSE
    /\ credentials = GoodCredentials
    /\ disc = NoDiscovery
    /\ subject = NoSubject
    /\ http = NoHttp
    /\ \E e \in {"ok", "fails"} :
          \/ \E doc \in Docs, p \in LoadPaths :
                load = [pc |-> "start", doc |-> doc, path |-> p, endpoint |-> e,
                        env |-> [kind |-> "none"], result |-> NoAnswer, requests |-> 0,
                        pid |-> NoAnswer, refreshed |-> "no", token |-> 0, calls |-> 0]
          \/ \E p \in EnvPaths : \E env \in EnvsOf(p) :
                load = [pc |-> "start", doc |-> NoDoc, path |-> p, endpoint |-> e,
                        env |-> env, result |-> NoAnswer, requests |-> 0,
                        pid |-> NoAnswer, refreshed |-> "no", token |-> 0, calls |-> 0]

LoadNext ==
    \/ LoadCredentials
    \/ LoadedProjectId
    \/ \E body \in MetadataBodies : RequestedProjectId(body)
    \/ LoadedRefreshToken

LoadSpec == LoadInit /\ [][LoadNext]_vars

\* ------------------------------------------------- a token fetch over HTTP

\* How many times to attempt to fetch a token.
RETRY_COUNT == 5

\* The errors `client.request(req).await` may return.
TransportErrors == {"refused", "reset"}

\* The statuses a response may carry.
Statuses == {200, 403, 503}

\* The bodies a response may carry: a token document, some other text, or a
\* body whose bytes cannot be read to the end.
Bodies == {"token", "text", "unreadable"}

\* StatusCode::is_success
is_success(status) == status >= 200 /\ status < 300

\* No response has arrived.
NoResponse == [status |-> 0, body |-> "none"]

\* HyperExt::deserialize: read the body, refuse a status that is not a
\* success with the status and the body in the error, parse the rest.
response_deserialize(response) ==
    IF response.body = "unreadable"
    THEN [kind |-> "err", error |-> "ConnectionError", cause |-> "body"]
    ELSE IF ~is_success(response.status)
    THEN [kind |-> "err", error |-> "ServerUnavailable",
          cause |-> <<response.status, response.body>>]
    ELSE IF response.body = "token" THEN [kind |-> "ok"]
    ELSE [kind |-> "err", error |-> "ParsingError", cause |-> response.body]

\* Every variable but http.
HttpRest == <<credentials, disc, subject, load, now, provider, tokens, issued, pc, scopes,
              tok, ret, refresh_lock, bg, writer, callNo, path, seen>>

\* Faulty variant of TransportError: one more attempt than RETRY_COUNT.
TransportErrorOneMore(e) ==
    /\ http.pc = "attempt"
    /\ LET retries == http.retries + 1
       IN  http' = [http EXCEPT
                       !.built = @ + 1, !.sent = @ + 1,
                       !.errors = Append(@, e),
                       !.retries = retries,
                       !.pc = IF retries > RETRY_COUNT THEN "done" ELSE "attempt",
                       !.result = IF retries > RETRY_COUNT
                                  THEN [kind |-> "err", error |-> "OAuthConnectionError",
                                        cause |-> e]
                                  ELSE @]
    /\ UNCHANGED HttpRest

\* One turn of the loop in get_token: a request is built and sent, the
\* transport fails with e; after RETRY_COUNT failures the call returns
\* OAuthConnectionError(e), before that the loop goes round.
TransportError(e) ==
    /\ http.pc = "attempt"
    /\ LET retries == http.retries + 1
       IN  http' = [http EXCEPT
                       !.built = @ + 1, !.sent = @ + 1,
                       !.errors = Append(@, e),
                       !.retries = retries,
                       !.pc = IF retries >= RETRY_COUNT THEN "done" ELSE "attempt",
                       !.result = IF retries >= RETRY_COUNT
                                  THEN [kind |-> "err", error |-> "OAuthConnectionError",
                                        cause |-> e]
                                  ELSE @]
    /\ UNCHANGED HttpRest

\* Faulty variant of Respond: a 5xx answer is tried again.
RespondRetryServerError(status, body) ==
    /\ http.pc = "attempt"
    /\ LET response == [status |-> status, body |-> body]
       IN  IF status >= 500 /\ http.retries + 1 < RETRY_COUNT
           THEN http' = [http EXCEPT !.built = @ + 1, !.sent = @ + 1,
                                     !.retries = @ + 1, !.response = response]
           ELSE http' = [http EXCEPT
                            !.built = @ + 1, !.sent = @ + 1,
                            !.response = response,
                            !.pc = "done",
                            !.result = response_deserialize(response),
                            !.cached = response_deserialize(response).kind = "ok"]
    /\ UNCHANGED HttpRest

\* The last turn of the loop: a request is built and sent, a response
\* arrives and breaks the loop; deserialize decides the result, and
\* refresh_token stores a token only when it is Ok.
Respond(status, body) ==
    /\ http.pc = "attempt"
    /\ LET response == [status |-> status, body |-> body]
       IN  http' = [http EXCEPT
                       !.built = @ + 1, !.sent = @ + 1,
                       !.response = response,
                       !.pc = "done",
                       !.result = response_deserialize(response),
                       !.cached = response_deserialize(response).kind = "ok"]
    /\ UNCHANGED HttpRest

\* refresh_token is called with nothing cached.
HttpInit ==
    /\ InitCallers
    /\ provider = "none"
    /\ tokens = [k \in CacheKeys |-> NoToken]
    /\ issued = 0
    /\ refresh_lock = RefreshLockNew("Account")
    /\ bg = [s \in ScopeLists |-> 0]
    /\ writer = FALSE
    /\ credentials = GoodCredentials
    /\ disc = NoDiscovery
    /\ subject = NoSubject
    /\ load = NoLoad
    /\ http = [pc |-> "attempt", retries |-> 0, built |-> 0, sent |-> 0, errors |-> <<>>,
               response |-> NoResponse, result |-> [kind |-> "none"], cached |-> FALSE]

HttpNext ==
    \/ \E e \in TransportErrors : TransportError(e)
    \/ \E status \in Statuses, body \in Bodies : Respond(status, body)

HttpSpec == HttpInit /\ [][HttpNext]_vars

\* No caller has called yet.
IdleCallers ==
    /\ pc = [c \in Callers |-> "idle"]
    /\ scopes = [c \in Callers |-> <<>>]
    /\ tok = [c \in Callers |-> NoToken]
    /\ ret = [c \in Callers |-> NoResult]
    /\ callNo = [c \in Callers |-> 0]
    /\ path = [c \in Callers |-> "none"]
    /\ seen = [c \in Callers |-> 0]

\* ------------------------------------------------ the claims of a key's JWT

\* ServiceAccountCredentials::DEFAULT_TOKEN_URI
DEFAULT_TOKEN_URI == "https://oauth2.googleapis.com/token"

\* The service-account key documents: client_email is always there,
\* token_uri and audience may be missing.
KeyDocs ==
    [client_email : {"sa@p.iam", "sa@q.iam"},
     token_uri : {Absent, DEFAULT_TOKEN_URI, "https://sts.example/token"},
     audience : {Absent, "https://testservice.googleapis.com/"}]

\* The scope lists a caller passes.
KeyScopeLists == {<<>>, <<"s1">>, <<"s1", "s2">>, <<"s2", "s1">>, <<"s1", "s2", "s3">>}

\* The instants at which the claims are built.
KeyInstants == {0, 7}

\* struct ApplicationCredentials read from a key document: token_uri is a
\* required String, no field takes the document's audience.
application_credentials(doc) ==
    IF doc.token_uri = Absent THEN [kind |-> "err", error |-> "Json"]
    ELSE [kind |-> "ok", client_email |-> doc.client_email, token_uri |-> doc.token_uri]

\* Claims::new(key, scopes, sub) of custom_service_account.rs
Claims_new_key(key, s, sub) ==
    [iss |-> key.client_email, aud |-> key.token_uri, exp |-> Claims_new(s).exp,
     iat |-> Claims_new(s).iat, sub |-> sub, scope |-> Claims_new(s).scope]

\* Claims::new(iss, aud, scopes, sub) as ServiceAccountCredentials calls it.
Claims_new_aud(iss, aud, s, sub) ==
    [iss |-> iss, aud |-> aud, exp |-> Claims_new(s).exp,
     iat |-> Claims_new(s).iat, sub |-> sub, scope |-> Claims_new(s).scope]

\* unwrap_or on an optional field of the document
unwrap_or(field, default) == IF field = Absent THEN default ELSE field

\* CustomServiceAccount::from_json(doc), then fetch_token(scopes) up to the
\* claims it signs.
CustomServiceAccountClaims ==
    /\ subject.kind = "key"
    /\ LET key == application_credentials(subject.doc)
       IN  subject' = [kind |-> "jwt", via |-> "CustomServiceAccount", doc |-> subject.doc,
                       scopes |-> subject.scopes,
                       result |-> IF key.kind = "err" THEN key
                                  ELSE [kind |-> "claims",
                                        claims |-> Claims_new_key(key, subject.scopes, NoValue)]]
    /\ UNCHANGED Rest

\* ServiceAccountCredentials::refresh_token(scopes) up to the claims it signs.
ServiceAccountCredentialsClaims ==
    /\ subject.kind = "key"
    /\ LET token_uri == unwrap_or(subject.doc.token_uri, DEFAULT_TOKEN_URI)
           audience  == unwrap_or(subject.doc.audience, token_uri)
       IN  subject' = [kind |-> "jwt", via |-> "ServiceAccountCredentials", doc |-> subject.doc,
                       scopes |-> subject.scopes,
                       result |-> [kind |-> "claims",
                                   claims |-> Claims_new_aud(subject.doc.client_email, audience,
                                                             subject.scopes, NoValue)]]
    /\ UNCHANGED Rest

\* A key document and a scope list are at hand.
KeyInit ==
    /\ IdleCallers
    /\ provider = "none"
    /\ tokens = [k \in CacheKeys |-> NoToken]
    /\ issued = 0
    /\ refresh_lock = RefreshLockNew("Account")
    /\ bg = [s \in ScopeLists |-> 0]
    /\ writer = FALSE
    /\ credentials = GoodCredentials
    /\ disc = NoDiscovery
    /\ load = NoLoad
    /\ http = NoHttp
    /\ now \in KeyInstants
    /\ \E doc \in KeyDocs, s \in KeyScopeLists :
          subject = [kind |-> "key", doc |-> doc, scopes |-> s]

KeyNext ==
    \/ CustomServiceAccountClaims
    \/ ServiceAccountCredentialsClaims

KeySpec == KeyInit /\ [][KeyNext]_vars

\* ---------------------------------------------------- the encoding of a JWT

\* GOOGLE_RS256_HEAD, the bytes of {"alg":"RS256","typ":"JWT"}
GOOGLE_RS256_HEAD ==
    <<123, 34, 97, 108, 103, 34, 58, 34, 82, 83, 50, 53, 54, 34, 44, 34, 116, 121, 112, 34,
      58, 34, 74, 87, 84, 34, 125>>

\* The characters of a JWT: 0..63 are the positions of the URL-safe
\* alphabet, PAD is '=' and DOT is '.'.
PAD == 64

DOT == 65

\* URL_SAFE.encode_string: three bytes give four characters, a last group
\* of one or two bytes is filled up with '='.
encode_string(bytes) ==
    LET n == Len(bytes)
        byte(i) == IF i <= n THEN bytes[i] ELSE 0
    IN  [k \in 1..(4 * ((n + 2) \div 3)) |->
            LET g == (k - 1) \div 4
                a == byte(3 * g + 1)
                b == byte(3 * g + 2)
                c == byte(3 * g + 3)
            IN  CASE (k - 1) % 4 = 0 -> a \div 4
                  [] (k - 1) % 4 = 1 -> (a % 4) * 16 + b \div 16
                  [] (k - 1) % 4 = 2 -> IF 3 * g + 2 > n THEN PAD
                                        ELSE (b % 16) * 4 + c \div 64
                  [] (k - 1) % 4 = 3 -> IF 3 * g + 3 > n THEN PAD ELSE c % 64]

\* The first segment that test_jwt_sign expects,
\* eyJhbGciOiJSUzI1NiIsInR5cCI6IkpXVCJ9, as alphabet positions.
test_jwt_sign_head ==
    <<30, 50, 9, 33, 27, 6, 28, 34, 14, 34, 9, 18, 20, 51, 8, 53, 13, 34, 8, 44, 8, 39, 17, 57,
      28, 2, 8, 58, 8, 36, 41, 23, 21, 2, 9, 61>>

\* jwt.as_bytes(): every character of a JWT is one ASCII byte; the bytes are
\* told apart from the characters by an offset that keeps them within a byte.
as_bytes(text) == [i \in 1..Len(text) |-> text[i] + 43]

\* The bytes serde_json::to_string(claims) may give, by length.
JsonBytes == {123, 34}

ClaimsJsons == UNION {[1..n -> JsonBytes] : n \in 2..4}

\* key.public_modulus_len() of the RSA keys ring signs with: 2048 and 3072
\* bits.
ModulusLens == {256, 384}

\* The signers: a key of one of the lengths, or a key whose signing fails.
Signers == [modulus_len : ModulusLens, fails : BOOLEAN]

RECURSIVE SumBytes(_)
SumBytes(bytes) == IF Len(bytes) = 0 THEN 0 ELSE bytes[1] + SumBytes(Tail(bytes))

\* Signer::sign(input): modulus_len bytes that depend on every byte of the
\* input, or SignerFailed.
sign(signer, input) ==
    IF signer.fails THEN [kind |-> "err", error |-> "SignerFailed"]
    ELSE [kind |-> "ok",
          signature |-> [i \in 1..signer.modulus_len |-> (SumBytes(input) + Len(input) + i) % 256]]

\* Claims::to_jwt(signer) for claims whose JSON is json.
to_jwt(json, signer) ==
    LET jwt == encode_string(GOOGLE_RS256_HEAD) \o <<DOT>> \o encode_string(json)
        signature == sign(signer, as_bytes(jwt))
    IN  IF signature.kind = "err" THEN signature
        ELSE [kind |-> "ok", jwt |-> jwt \o <<DOT>> \o encode_string(signature.signature)]

\* claims.to_jwt(&signer)
ToJwt ==
    /\ subject.kind = "claims_json"
    /\ subject' = [kind |-> "to_jwt", json |-> subject.json, signer |-> subject.signer,
                   result |-> to_jwt(subject.json, subject.signer)]
    /\ UNCHANGED Rest

\* Claims have been built and serialize to some JSON; a signer is at hand.
JwtInit ==
    /\ InitCallers
    /\ provider = "none"
    /\ tokens = [k \in CacheKeys |-> NoToken]
    /\ issued = 0
    /\ refresh_lock = RefreshLockNew("Account")
    /\ bg = [s \in ScopeLists |-> 0]
    /\ writer = FALSE
    /\ credentials = GoodCredentials
    /\ disc = NoDiscovery
    /\ load = NoLoad
    /\ http = NoHttp
    /\ now = 0
    /\ \E json \in ClaimsJsons, signer \in Signers :
          subject = [kind |-> "claims_json", json |-> json, signer |-> signer]

JwtNext == ToJwt

JwtSpec == JwtInit /\ [][JwtNext]_vars

\* ------------------------------------- the generateAccessToken request body

\* gcloud_authorized_user::DEFAULT_TOKEN_DURATION, in seconds
DEFAULT_TOKEN_DURATION == 3600

\* The delegates a credential may be configured with.
DelegateLists == {<<>>, <<"d1">>, <<"d2">>, <<"d1", "d2">>, <<"d2", "d1">>, <<"d1", "d1">>}

\* #[serde(skip_serializing_if = "Vec::is_empty")]: the key is left out for
\* an empty list.
skip_serializing_if_empty(list) == IF Len(list) = 0 THEN NoValue ELSE Some(list)

\* struct AccessTokenRequest as serialized by ImpersonatedServiceAccount::
\* refresh_token and ImpersonatedServiceAccountCredentials::refresh_with_token.
AccessTokenRequest(s, delegates) ==
    [lifetime |-> <<DEFAULT_TOKEN_DURATION, "s">>,
     scope |-> skip_serializing_if_empty(s),
     delegates |-> skip_serializing_if_empty(delegates)]

\* serde_json::json!({"scope": scopes, "lifetime": "3600s"}) of
\* ExternalAccount::impersonate_service_account.
impersonate_service_account_body(s) ==
    [lifetime |-> <<3600, "s">>, scope |-> Some(s), delegates |-> NoValue]

\* The body of the request at each of the three places.
ImpersonationPlaces ==
    {"ImpersonatedServiceAccount", "ImpersonatedServiceAccountCredentials", "ExternalAccount"}

\* The impersonation request is built at place p.
BuildImpersonationBody(p) ==
    /\ subject.kind = "impersonation"
    /\ subject' = [kind |-> "impersonation_body", place |-> p, scopes |-> subject.scopes,
                   delegates |-> subject.delegates,
                   body |-> IF p = "ExternalAccount"
                            THEN impersonate_service_account_body(subject.scopes)
                            ELSE AccessTokenRequest(subject.scopes, subject.delegates)]
    /\ UNCHANGED Rest

\* A credential with its delegates is asked for a token over some scopes.
BodyInit ==
    /\ InitCallers
    /\ provider = "none"
    /\ tokens = [k \in CacheKeys |-> NoToken]
    /\ issued = 0
    /\ refresh_lock = RefreshLockNew("Account")
    /\ bg = [s \in ScopeLists |-> 0]
    /\ writer = FALSE
    /\ credentials = GoodCredentials
    /\ disc = NoDiscovery
    /\ load = NoLoad
    /\ http = NoHttp
    /\ now = 0
    /\ \E s \in KeyScopeLists, d \in DelegateLists :
          subject = [kind |-> "impersonation", scopes |-> s, delegates |-> d]

BodyNext == \E p \in ImpersonationPlaces : BuildImpersonationBody(p)

BodySpec == BodyInit /\ [][BodyNext]_vars

\* --------------------------------------- the token of an impersonation reply

\* The expireTime strings of a reply: a timestamp of some instant, or text
\* that is no timestamp.
ExpireTimes ==
    {[text |-> "timestamp", instant |-> t] : t \in {5, 50, 100, 3700}}
        \cup {[text |-> "garbage", instant |-> 0]}

\* The instants at which a reply is read.
ReplyInstants == {10, 60, 100}

\* OffsetDateTime::parse(&time_str, &Iso8601::PARSING) and
\* expire_time.parse::<chrono::DateTime<chrono::Utc>>()
parse_expire_time(expire_time) ==
    IF expire_time.text = "timestamp" THEN Some(expire_time.instant) ELSE NoValue

\* Token::new(access_token, expires_at)
Token_new(access_token, instant) == [access_token |-> access_token, expires_at |-> instant]

Max(a, b) == IF a >= b THEN a ELSE b

\* ImpersonatedServiceAccount::refresh_token reads the reply as an
\* ImpersonationTokenResponse and turns it into a Token.
impersonation_token_response(reply) ==
    LET expire_time == parse_expire_time(reply.expireTime)
    IN  IF expire_time.some
        THEN [kind |-> "ok", token |-> Token_new(reply.accessToken, expire_time.value)]
        ELSE [kind |-> "err", token |-> NoToken]

\* ImpersonatedServiceAccountCredentials::refresh_with_token reads the reply
\* as a Token, which wants the fields access_token and expires_in.
refresh_with_token_reply(reply) == [kind |-> "err", token |-> NoToken]

\* ExternalAccount::impersonate_service_account: the time left until
\* expireTime, not below zero, or 3600 s when expireTime does not parse,
\* counted from now.
impersonate_service_account_reply(reply) ==
    LET expire_time == parse_expire_time(reply.expireTime)
        expires_in == IF expire_time.some THEN Max(expire_time.value - now, 0) ELSE 3600
    IN  [kind |-> "ok", token |-> from_string(reply.accessToken, expires_in)]

\* The reply {accessToken, expireTime} is turned into a token at place p.
ReadImpersonationReply(p) ==
    /\ subject.kind = "impersonation_reply"
    /\ subject' = [kind |-> "impersonation_token", place |-> p, reply |-> subject.reply,
                   result |-> CASE p = "ImpersonatedServiceAccount" ->
                                       impersonation_token_response(subject.reply)
                                [] p = "ImpersonatedServiceAccountCredentials" ->
                                       refresh_with_token_reply(subject.reply)
                                [] p = "ExternalAccount" ->
                                       impersonate_service_account_reply(subject.reply)]
    /\ UNCHANGED Rest

\* The impersonation endpoint has answered with a 2xx reply.
ReplyInit ==
    /\ IdleCallers
    /\ provider = "none"
    /\ tokens = [k \in CacheKeys |-> NoToken]
    /\ issued = 0
    /\ refresh_lock = RefreshLockNew("Account")
    /\ bg = [s \in ScopeLists |-> 0]
    /\ writer = FALSE
    /\ credentials = GoodCredentials
    /\ disc = NoDiscovery
    /\ load = NoLoad
    /\ http = NoHttp
    /\ now \in ReplyInstants
    /\ \E a \in AccessTokens, e \in ExpireTimes :
          subject = [kind |-> "impersonation_reply", reply |-> [accessToken |-> a, expireTime |-> e]]

ReplyNext == \E p \in ImpersonationPlaces : ReadImpersonationReply(p)

ReplySpec == ReplyInit /\ [][ReplyNext]_vars

\* ----------------------------------------------- an external-account refresh

\* The text formats of credential_source.format: none, text, json with the
\* default field name, json with a field name of its own.
SourceFormats ==
    {NoValue,
     Some([format_type |-> "text", subject_token_field_name |-> Absent]),
     Some([format_type |-> "json", subject_token_field_name |-> Absent]),
     Some([format_type |-> "json", subject_token_field_name |-> "id_token"])}

\* The external-account credentials: where the subject token comes from, its
\* format, and whether a service account is impersonated.
ExternalCredentials ==
    [file : BOOLEAN, url : BOOLEAN, format : SourceFormats,
     service_account_impersonation_url : BOOLEAN]

\* What a source body holds between its leading and trailing whitespace: a
\* bare token, or a JSON object with one field whose value is a string or a
\* number.
SourceContents ==
    {[kind |-> "text", text |-> "jwt"],
     [kind |-> "json", field |-> "access_token", string |-> TRUE, text |-> "jwt"],
     [kind |-> "json", field |-> "id_token", string |-> TRUE, text |-> "jwt"],
     [kind |-> "json", field |-> "access_token", string |-> FALSE, text |-> "17"]}

\* The bodies of the token file and of the reply of the token url.
SourceBodies == [lead : {<<>>, <<" ">>}, content : SourceContents, trail : {<<>>, <<LF>>}]

\* The file cannot be read, the request to the url fails.
SourceFailure == [lead |-> <<>>, content |-> [kind |-> "failure"], trail |-> <<>>]

\* str::trim
trim(text) == [text EXCEPT !.lead = <<>>, !.trail = <<>>]

\* ExternalAccount::extract_token
extract_token(format, response) ==
    IF format.some /\ format.value.format_type = "json"
    THEN LET field_name == unwrap_or(format.value.subject_token_field_name, "access_token")
         IN  IF response.content.kind /= "json"
             THEN [kind |-> "err", error |-> "Json"]
             ELSE IF response.content.field /= field_name \/ ~response.content.string
             THEN [kind |-> "err", error |-> "Str"]
             ELSE [kind |-> "ok",
                   token |-> [lead |-> <<>>,
                              content |-> [kind |-> "text", text |-> response.content.text],
                              trail |-> <<>>]]
    ELSE [kind |-> "ok", token |-> response]

\* ExternalAccount::read_subject_token: the file when there is one, trimmed;
\* else the body the url answers with, as it is; else an error.
read_subject_token(cred, body) ==
    IF cred.file
    THEN IF body = SourceFailure THEN [kind |-> "err", error |-> "Io"]
         ELSE extract_token(cred.format, trim(body))
    ELSE IF cred.url
    THEN IF body = SourceFailure THEN [kind |-> "err", error |-> "Http"]
         ELSE extract_token(cred.format, body)
    ELSE [kind |-> "err", error |-> "Str"]

\* What the STS endpoint and the impersonation endpoint may answer: no usable
\* response, a body that does not parse, or the fields of a token response.
StsReplies ==
    {[kind |-> "failure"], [kind |-> "unparsable"]}
        \cup {[kind |-> "ok", access_token |-> 1, expires_in |-> e] :
                  e \in {NoValue, Some(100)}}

ImpersonationReplies ==
    {[kind |-> "failure"], [kind |-> "unparsable"]}
        \cup {[kind |-> "ok", accessToken |-> 2, expireTime |-> e] : e \in ExpireTimes}

\* fetch_token, first step: read_subject_token. Reading the file is no
\* request; asking the url is one.
ReadSubjectToken(body) ==
    /\ subject.kind = "external"
    /\ subject.pc = "read"
    /\ LET cred == subject.cred
           read == read_subject_token(cred, body)
           steps == IF cred.file THEN <<"file">> ELSE IF cred.url THEN <<"url">> ELSE <<>>
       IN  IF read.kind = "err"
           THEN subject' = [subject EXCEPT !.pc = "done", !.steps = @ \o steps, !.body = body,
                                           !.result = [kind |-> "err", error |-> read.error,
                                                       at |-> "read"]]
           ELSE subject' = [subject EXCEPT !.pc = "exchange", !.steps = @ \o steps,
                                           !.body = body, !.subject_token = read.token]
    /\ UNCHANGED Rest

\* Faulty variant of ExchangeToken: the STS token is stored before the
\* impersonation call.
ExchangeTokenStoresFirst(reply) ==
    /\ subject.kind = "external"
    /\ subject.pc = "exchange"
    /\ LET sent == [subject EXCEPT !.steps = Append(@, "sts"), !.sts = reply, !.stsAt = now]
           token == from_string(reply.access_token,
                                IF reply.expires_in.some THEN reply.expires_in.value ELSE 3600)
       IN  IF reply.kind = "failure"
           THEN subject' = [sent EXCEPT !.pc = "done", !.result = [kind |-> "err", error |-> "Http", at |-> "sts"]]
           ELSE IF reply.kind = "unparsable"
           THEN subject' = [sent EXCEPT !.pc = "done", !.result = [kind |-> "err", error |-> "Json", at |-> "sts"]]
           ELSE IF subject.cred.service_account_impersonation_url
           THEN subject' = [sent EXCEPT !.pc = "impersonate", !.federated = token,
                                        !.cached = token]
           ELSE subject' = [sent EXCEPT !.pc = "done", !.result = [kind |-> "ok", token |-> token],
                                        !.cached = token]
    /\ UNCHANGED Rest

\* exchange_token: the subject token is posted to the STS endpoint; the
\* token of the reply lives expires_in seconds, 3600 when the reply names
\* none; it is the result unless a service account is to be impersonated.
ExchangeToken(reply) ==
    /\ subject.kind = "external"
    /\ subject.pc = "exchange"
    /\ LET sent == [subject EXCEPT !.steps = Append(@, "sts"), !.sts = reply, !.stsAt = now]
           token == from_string(reply.access_token,
                                IF reply.expires_in.some THEN reply.expires_in.value ELSE 3600)
       IN  IF reply.kind = "failure"
           THEN subject' = [sent EXCEPT !.pc = "done", !.result = [kind |-> "err", error |-> "Http", at |-> "sts"]]
           ELSE IF reply.kind = "unparsable"
           THEN subject' = [sent EXCEPT !.pc = "done", !.result = [kind |-> "err", error |-> "Json", at |-> "sts"]]
           ELSE IF subject.cred.service_account_impersonation_url
           THEN subject' = [sent EXCEPT !.pc = "impersonate", !.federated = token]
           ELSE subject' = [sent EXCEPT !.pc = "done", !.result = [kind |-> "ok", token |-> token],
                                        !.cached = token]
    /\ UNCHANGED Rest

\* impersonate_service_account: the federated token is the Bearer of the
\* request to the impersonation url; the token of the reply is the result.
ImpersonateServiceAccount(reply) ==
    /\ subject.kind = "external"
    /\ subject.pc = "impersonate"
    /\ LET sent == [subject EXCEPT !.steps = Append(@, "impersonate"),
                                   !.bearer = subject.federated]
       IN  IF reply.kind = "failure"
           THEN subject' = [sent EXCEPT !.pc = "done", !.result = [kind |-> "err", error |-> "Http", at |-> "impersonate"]]
           ELSE IF reply.kind = "unparsable"
           THEN subject' = [sent EXCEPT !.pc = "done", !.result = [kind |-> "err", error |-> "Json", at |-> "impersonate"]]
           ELSE LET token == impersonate_service_account_reply(reply).token
                IN  subject' = [sent EXCEPT !.pc = "done",
                                            !.result = [kind |-> "ok", token |-> token],
                                            !.cached = token]
    /\ UNCHANGED Rest

\* ExternalAccount::token has found no unexpired token and holds the write
\* lock; the entry of the scopes is empty or holds an expired token.
ExtInit ==
    /\ InitCallers
    /\ provider = "ExternalAccount"
    /\ tokens = [k \in CacheKeys |-> NoToken]
    /\ issued = 0
    /\ refresh_lock = RefreshLockNew("Account")
    /\ bg = [s \in ScopeLists |-> 0]
    /\ writer = TRUE
    /\ credentials = GoodCredentials
    /\ disc = NoDiscovery
    /\ load = NoLoad
    /\ http = NoHttp
    /\ \E cred \in ExternalCredentials, old \in {NoToken, [access_token |-> 9, expires_at |-> 0]} :
          subject = [kind |-> "external", cred |-> cred, pc |-> "read", steps |-> <<>>,
                     body |-> SourceFailure, subject_token |-> SourceFailure,
                     federated |-> NoToken, bearer |-> NoToken, before |-> old, cached |-> old,
                     sts |-> [kind |-> "none"], stsAt |-> 0, result |-> [kind |-> "none"]]

ExtNext ==
    \/ \E body \in SourceBodies \cup {SourceFailure} : ReadSubjectToken(body)
    \/ \E reply \in StsReplies : ExchangeToken(reply)
    \/ \E reply \in ImpersonationReplies : ImpersonateServiceAccount(reply)
    \/ \E d \in TickSteps : Tick(d)

ExtSpec == ExtInit /\ [][ExtNext]_vars

\* -------------------------- ImpersonatedServiceAccount::refresh_token, stepwise

\* What source_credentials.refresh_token may return: a token of the source
\* or one of its errors.
SourceResults ==
    {[kind |-> "ok", token |-> [access_token |-> a, expires_at |-> e]] : a \in {1, 3}, e \in Lifetimes}
        \cup {[kind |-> "err", error |-> e] : e \in {"OAuthConnectionError", "ServerUnavailable"}}

\* What the impersonation endpoint may answer to a POST that got through.
PostReplies ==
    {[kind |-> "ok", accessToken |-> 2, expireTime |-> e] : e \in ExpireTimes}
        \cup {[kind |-> "status"]}

\* Faulty variant of SourceRefreshToken: the error of the source is dropped
\* and the POST goes out with the token at hand.
SourceRefreshTokenGoesOn(result) ==
    /\ subject.kind = "impersonated"
    /\ subject.pc = "source"
    /\ subject' = [subject EXCEPT
                      !.pc = "post",
                      !.log = Append(@, [to |-> "source", scopes |-> subject.scopes,
                                         result |-> result.kind]),
                      !.source_token = IF result.kind = "ok" THEN result.token ELSE @]
    /\ UNCHANGED Rest

\* refresh_token, lines 106-109: source_credentials.refresh_token(client,
\* scopes).await? - an error of the source is the result of the call.
SourceRefreshToken(result) ==
    /\ subject.kind = "impersonated"
    /\ subject.pc = "source"
    /\ LET asked == [subject EXCEPT
                        !.log = Append(@, [to |-> "source", scopes |-> subject.scopes,
                                           result |-> result.kind])]
       IN  IF result.kind = "err"
           THEN subject' = [asked EXCEPT !.pc = "done", !.result = result]
           ELSE subject' = [asked EXCEPT !.pc = "post", !.source_token = result.token]
    /\ UNCHANGED Rest

\* The request of one turn of the loop, lines 136-143.
Post == [to |-> "impersonation", scopes |-> subject.scopes, bearer |-> subject.source_token]

\* refresh_token, lines 132-158: a POST fails in the transport; the loop
\* goes round until RETRY_COUNT of them have failed.
PostTransportError(e) ==
    /\ subject.kind = "impersonated"
    /\ subject.pc = "post"
    /\ LET retries == subject.retries + 1
       IN  subject' = [subject EXCEPT
                          !.log = Append(@, Post),
                          !.retries = retries,
                          !.pc = IF retries >= RETRY_COUNT THEN "done" ELSE "post",
                          !.result = IF retries >= RETRY_COUNT
                                     THEN [kind |-> "err", error |-> "OAuthConnectionError"]
                                     ELSE @]
    /\ UNCHANGED Rest

\* refresh_token, lines 145-168: a POST is answered; the reply is read, and
\* the token it gives is stored under the scopes and returned.
PostAnswered(reply) ==
    /\ subject.kind = "impersonated"
    /\ subject.pc = "post"
    /\ LET sent == [subject EXCEPT !.log = Append(@, Post), !.pc = "done"]
           read == IF reply.kind = "status" THEN [kind |-> "err", token |-> NoToken]
                   ELSE impersonation_token_response(reply)
       IN  IF read.kind = "err"
           THEN subject' = [sent EXCEPT !.result = [kind |-> "err", error |-> "ServerUnavailable"]]
           ELSE subject' = [sent EXCEPT !.result = read, !.cached = read.token]
    /\ UNCHANGED Rest

\* refresh_token(client, scopes) is called on an ImpersonatedServiceAccount
\* whose entry for the scopes is empty or old.
ImpersonatedInit ==
    /\ InitCallers
    /\ provider = "ImpersonatedServiceAccount"
    /\ tokens = [k \in CacheKeys |-> NoToken]
    /\ issued = 0
    /\ refresh_lock = RefreshLockNew("AccountAndScopes")
    /\ bg = [s \in ScopeLists |-> 0]
    /\ writer = FALSE
    /\ credentials = GoodCredentials
    /\ disc = NoDiscovery
    /\ load = NoLoad
    /\ http = NoHttp
    /\ \E s \in KeyScopeLists, old \in {NoToken, [access_token |-> 9, expires_at |-> 0]} :
          subject = [kind |-> "impersonated", scopes |-> s, pc |-> "source", log |-> <<>>,
                     source_token |-> NoToken, retries |-> 0, before |-> old, cached |-> old,
                     result |-> [kind |-> "none"]]

ImpersonatedNext ==
    \/ \E result \in SourceResults : SourceRefreshToken(result)
    \/ \E e \in TransportErrors : PostTransportError(e)
    \/ \E reply \in PostReplies : PostAnswered(reply)

ImpersonatedSpec == ImpersonatedInit /\ [][ImpersonatedNext]_vars

\* ------------------------------------------------------------ properties

\* The set of scopes of a scope list.
ScopeSet(s) == {s[i] : i \in 1..Len(s)}

\* The callers that have called with scopes s.
Batch(s) == {c \in Callers : callNo[c] >= 1 /\ scopes[c] = s}

\* The call of c found no unexpired token when it started.
Slow(c) == path[c] \in {"slow", "refresh"}

\* The call of c has returned Ok with a token that is still unexpired.
ReturnedUnexpired(c) ==
    pc[c] = "idle" /\ ret[c].kind = "ok" /\ Unexpired(ret[c].token)

\* Every caller has called at most once, and the callers that used the cache
\* entry of s all called with s.
OnlyBatch(s) ==
    \A c \in Callers :
        /\ callNo[c] <= 1
        /\ (callNo[c] = 1 /\ CacheKey(provider, scopes[c]) = CacheKey(provider, s))
              => scopes[c] = s

\* Two or more callers called with s while the cache held no unexpired token
\* for s, nobody else used that entry, and all of them have returned Ok with
\* tokens that are still unexpired.
ConcurrentMisses(s) ==
    /\ Cardinality(Batch(s)) >= 2
    /\ OnlyBatch(s)
    /\ \A c \in Batch(s) : Slow(c) /\ ReturnedUnexpired(c)

\* Exactly one of the callers of s invoked the refresh, and all of them
\* returned the same token.
OneRefreshOneToken(s) ==
    /\ Cardinality({c \in Batch(s) : path[c] = "refresh"}) = 1
    /\ \A c1, c2 \in Batch(s) : ret[c1].token = ret[c2].token

\* The background refreshes in flight under lock key k, one pair per task.
BgTasks(k) ==
    {t \in ScopeLists \X (1..MaxCalls) : lock_for_scopes(t[1]) = k /\ t[2] <= bg[t[1]]}

\* refresh_token calls in flight (inline and background) under lock key k.
InFlight(k) ==
    Cardinality({c \in Callers : pc[c] = "refreshing" /\ lock_for_scopes(scopes[c]) = k})
    + Cardinality(BgTasks(k))

\* A refresh_token call for exactly the scope list s is in flight.
RefreshingFor(s) ==
    \/ bg[s] > 0
    \/ \E c \in Callers : pc[c] = "refreshing" /\ scopes[c] = s

\* C1: get_token is single-flight. When two or more callers call get_token
\* with the same scopes while the cache holds no unexpired token for them,
\* and the refresh succeeds with a token that is not expired, refresh_token is
\* invoked exactly once and all of them return that one token.
C1_GetTokenSingleFlight ==
    provider \in ManagerProviders =>
        \A s \in ScopeLists : ConcurrentMisses(s) => OneRefreshOneToken(s)

C1_Witness ==
    /\ provider \in ManagerProviders
    /\ \E s \in ScopeLists : ConcurrentMisses(s)

\* C2: CustomServiceAccount::token: two concurrent callers asking for the same
\* scope set whose cached token is absent or expired cause at most one
\* fetch_token; the second reuses the token the first installed.
C2_CustomServiceAccountSingleFetch ==
    provider = "CustomServiceAccount" =>
        \A s \in ScopeLists : ConcurrentMisses(s) => OneRefreshOneToken(s)

\* C3: ExternalAccount::token is single-flight. fetch_token starts only while
\* the cache holds no unexpired token for the scopes (every caller looks
\* again under the write lock), so concurrent callers of one scope set that
\* found no unexpired token run fetch_token once and return the same token.
C3_ExternalAccountSingleFlight ==
    provider = "ExternalAccount" =>
        /\ \A c \in Callers :
              pc[c] = "fetching" => ~Unexpired(get_token(scopes[c]))
        /\ \A s \in ScopeLists : ConcurrentMisses(s) => OneRefreshOneToken(s)

C3_Witness ==
    /\ provider = "ExternalAccount"
    /\ \E s \in ScopeLists : ConcurrentMisses(s)

\* C4: in the single-slot providers a token fetch is in progress only while
\* the slot holds no unexpired token: a caller that saw an expired token does
\* not fetch if another caller has installed a fresh one in the meantime.
C4_SlotFetchOnlyWhenExpired ==
    provider \in SingleSlotProviders =>
        \A c \in Callers : pc[c] = "fetching" => ~Unexpired(tokens[Slot])

\* C5: at most one refresh_token call, inline or background, is in flight
\* per refresh key (the scope list under AccountAndScopes, the whole provider
\* under Account), and a refresh is in flight only while the mutex of its key
\* is held.
C5_OneRefreshPerKey ==
    \A k \in LockKeys :
        LET n == InFlight(k)
        IN  /\ n <= 1
            /\ n = 1 => refresh_lock[k] = "held"

\* Under Account a refresh is in flight while a caller with other scopes
\* waits for the one mutex.
C5_Witness ==
    /\ get_style(provider) = "Account"
    /\ InFlight(One) = 1
    /\ \E c \in Callers, s \in ScopeLists :
          /\ pc[c] = "wait_lock"
          /\ scopes[c] /= s
          /\ RefreshingFor(s)

\* C6: get_token never makes a caller with an unexpired cached token wait for
\* a refresh: whatever the refresh locks are, the call reads the token, and
\* for a token that expires soon its try_lock step goes through at once; the
\* call returns Ok.
C6_UnexpiredNeverWaits ==
    \A c \in Callers :
        /\ pc[c] = "idle" =>
              \A s \in ScopeLists :
                  Unexpired(get_token(s)) => ENABLED get_token_fast(c, s)
        /\ pc[c] = "soon" => tok[c] /= NoToken /\ ENABLED TryLockSpawn(c)
        /\ (pc[c] = "idle" /\ path[c] \in {"fast", "spawn"}) => ret[c].kind = "ok"

\* A caller holds a token that expires soon while the mutex of its scopes is
\* held by a refresh in flight.
C6_Witness ==
    \E c \in Callers :
        /\ pc[c] = "soon"
        /\ ~CanLock(scopes[c])
        /\ InFlight(lock_for_scopes(scopes[c])) = 1

\* C7: in CustomServiceAccount::token and ExternalAccount::token a call whose
\* scope set has an unexpired cached token reads it without waiting for a
\* token fetch in flight.
C7_CachedReadNeverWaits ==
    provider \in {"CustomServiceAccount", "ExternalAccount"} =>
        \A c \in Callers, s \in ScopeLists :
            (pc[c] = "idle" /\ Unexpired(get_token(s))) => ENABLED token_read(c, s)

\* C8: under AccountAndScopes a get_token call waiting for the mutex of its
\* scope list is not held up by refreshes of other scope lists: it can lock
\* whenever no refresh for its own scope list is in flight.
C8_ScopeListsRefreshInParallel ==
    get_style(provider) = "AccountAndScopes" =>
        \A c \in Callers :
            (pc[c] = "wait_lock" /\ ~RefreshingFor(scopes[c])) => ENABLED InlineLock(c)

\* Two inline refreshes for different scope lists are in flight at once.
C8_Witness ==
    /\ get_style(provider) = "AccountAndScopes"
    /\ \E c1, c2 \in Callers :
          /\ pc[c1] = "refreshing"
          /\ pc[c2] = "refreshing"
          /\ scopes[c1] /= scopes[c2]

\* C9: in CustomServiceAccount::token a call for a scope set disjoint from
\* those being fetched is not held up: two calls for disjoint scope sets can
\* have their fetches in flight together.
C9_DisjointFetchesInParallel ==
    provider = "CustomServiceAccount" =>
        \A c \in Callers :
            (/\ pc[c] = "wait_write"
             /\ \A c2 \in Callers :
                   pc[c2] = "fetching" =>
                       ScopeSet(scopes[c2]) \cap ScopeSet(scopes[c]) = {})
            => ENABLED TokenWrite(c)

\* C10: monotone expiry. A successful get_token call returns a token whose
\* expires_at is not below that of any token a call for the same scopes had
\* returned before this call started.
C10_MonotoneExpiry ==
    \A c \in Callers :
        (pc[c] = "idle" /\ ret[c].kind = "ok") => expires_at(ret[c].token) >= seen[c]

\* A step in which a refresh_token call, inline or background, returns Err.
RefreshFails ==
    \/ \E c \in Callers : InlineRefreshErr(c)
    \/ \E c \in Callers, d \in Lifetimes : InlineImpersonationErr(c, d)
    \/ \E s \in ScopeLists : BackgroundRefreshErr(s)
    \/ \E s \in ScopeLists, d \in Lifetimes : BackgroundImpersonationErr(s, d)

\* C11, as stated: a failed refresh changes no cache state; the entry of the
\* requested scopes and every other entry, the token held by nested source
\* credentials included, are what they were before the attempt.
C11_FailedRefreshChangesNothing ==
    [][RefreshFails => tokens' = tokens]_vars

\* C11, amended: a failed refresh leaves the provider's own token cache as it
\* was: get_token answers for every scope list what it answered before the
\* attempt.
C11_FailedRefreshKeepsOwnCache ==
    [][RefreshFails => \A s \in ScopeLists :
                          tokens'[CacheKey(provider, s)] = tokens[CacheKey(provider, s)]]_vars

\* Over ImpersonatedServiceAccount every refresh so far failed (the map is
\* empty, a caller got Err) and the source credentials hold a newer token.
C11_Witness ==
    /\ provider = "ImpersonatedServiceAccount"
    /\ \E c \in Callers : pc[c] = "idle" /\ ret[c].kind = "err"
    /\ tokens[Slot].access_token > 1
    /\ \A s \in ScopeLists : tokens[s] = NoToken

\* C12: get_token surfaces a refresh failure only to the caller whose own
\* inline refresh failed. A call that found an unexpired token, at once or
\* on looking again under the lock, has returned Ok with a token whatever
\* became of background or earlier refreshes; a call that returned an error
\* is one that ran refresh_token itself.
C12_ErrorOnlyFromOwnRefresh ==
    \A c \in Callers :
        (pc[c] = "idle" /\ callNo[c] >= 1) =>
            /\ ret[c].kind = "err" => path[c] = "refresh"
            /\ path[c] \in {"fast", "spawn", "slow"} =>
                  ret[c].kind = "ok" /\ ret[c].token /= NoToken

\* One caller returned Ok with the token whose background refresh it had
\* spawned, another returned the error of its inline refresh, and no
\* refresh has succeeded.
C12_Witness ==
    /\ provider \in ManagerProviders
    /\ \E c1, c2 \in Callers :
          /\ pc[c1] = "idle" /\ path[c1] = "spawn" /\ ret[c1].kind = "ok"
          /\ pc[c2] = "idle" /\ path[c2] = "refresh" /\ ret[c2].kind = "err"
          /\ bg[scopes[c1]] = 0
          /\ \A k \in CacheKeys \ {Slot} : tokens[k] = NoToken
          /\ tokens[Slot].access_token <= 1

\* The source at position i of the probes so far.
ProbedAt(i) == disc.probed[i]

\* C13: provider() probes the sources in the strict order environment file,
\* user-default file, metadata server, gcloud, each at most once; a source
\* is probed only after every earlier one failed (or the variable is
\* unset); the provider returned is that of the last source probed, whose
\* construction succeeded, and nothing is probed after a success.
C13_ProbesInOrderFirstSuccess ==
    disc.pc /= "none" =>
        LET n == Len(disc.probed) IN
        /\ n <= Len(Sources)
        /\ \A i \in 1..n : ProbedAt(i) = Sources[i]
        /\ \A i \in 1..n : i < n => disc.e[ProbedAt(i)] /= "ok"
        /\ disc.result.kind = "ok" =>
              /\ n >= 1
              /\ disc.e[ProbedAt(n)] = "ok"
              /\ disc.result.provider = ProviderOf(ProbedAt(n))
        /\ (n >= 1 /\ disc.e[ProbedAt(n)] = "ok") =>
              /\ disc.pc = "done"
              /\ disc.result.kind = "ok"

\* The metadata server is the first source that works: it was probed third,
\* its provider is returned, and gcloud, which would work too, is not probed.
C13_Witness ==
    /\ disc.pc = "done"
    /\ disc.probed = <<"env", "user_default", "metadata">>
    /\ disc.result = [kind |-> "ok", provider |-> "MetadataServiceAccount"]
    /\ disc.e.gcloud = "ok"

\* GOOGLE_APPLICATION_CREDENTIALS is set and the file cannot be opened or
\* parsed, or its key builds no signer.
EnvSetButInvalid ==
    disc.pc /= "none" /\ disc.e.env \in {"open_fails", "parse_fails", "bad_key"}

\* C14: when GOOGLE_APPLICATION_CREDENTIALS is set but its file cannot be
\* opened, cannot be parsed or its private key builds no signer, provider()
\* returns that error at once: no other source is ever probed.
C14_EnvSetButInvalidFailsAtOnce ==
    EnvSetButInvalid =>
        /\ disc.pc \in {"env", "done"}
        /\ \A i \in 1..Len(disc.probed) : ProbedAt(i) = "env"
        /\ disc.pc = "done" =>
              disc.result = [kind |-> "err", error |-> ErrorOf("env", disc.e)]

\* provider() has returned the error of a bad key although the user-default
\* file, the metadata server and gcloud would all have worked.
C14_Witness ==
    /\ EnvSetButInvalid
    /\ disc.pc = "done"
    /\ disc.e.env = "bad_key"
    /\ disc.e.user_default = "ok" /\ disc.e.metadata = "ok" /\ disc.e.gcloud = "ok"

\* C15: when the variable is unset and the user-default, metadata and gcloud
\* probes all fail, provider() returns NoAuthMethod whose three sub-errors
\* are, in this order, the user-default, the metadata and the gcloud failure.
C15_NoAuthMethodInProbeOrder ==
    (/\ disc.pc = "done"
     /\ disc.e.env = "unset"
     /\ disc.probed = Sources
     /\ disc.result.kind = "err")
    => disc.result.error =
          NoAuthMethod(ErrorOf("user_default", disc.e), ErrorOf("metadata", disc.e),
                       ErrorOf("gcloud", disc.e))

\* C16: every token() call returns either a value or a typed error and never
\* panics, whatever credentials were loaded (a token_uri that is no URI
\* included) and whatever the server answers.
C16_NeverPanics ==
    \A c \in Callers : ret[c].kind \in {"none", "ok", "err"}

C18_FreshThenExpired ==
    (subject.kind = "token" /\ subject.asked) =>
        /\ subject.askedAt = subject.born => ~subject.expired
        /\ subject.askedAt >= subject.born + subject.expires_in - 20 => subject.expired

\* C18 amended: a Token built from expires_in = D > 20 s has not expired when
\* asked at once; for every D it has expired when asked D - 20 s after
\* construction or later (so at once when D <= 20 s).
C18_FreshWhenLongerThanMargin ==
    (subject.kind = "token" /\ subject.asked) =>
        /\ (subject.askedAt = subject.born /\ subject.expires_in > 20) => ~subject.expired
        /\ subject.askedAt >= subject.born + subject.expires_in - 20 => subject.expired

\* A deserialized token with expires_in > 20 s was asked exactly
\* expires_in - 20 s after it was built, and had expired.
C18_Witness ==
    /\ subject.kind = "token"
    /\ subject.via = "deserialize"
    /\ subject.expires_in > 20
    /\ subject.born > 0
    /\ subject.asked
    /\ subject.askedAt = subject.born + subject.expires_in - 20
    /\ subject.expired

\* C19: the Debug rendering of a Token does not contain the access token, and
\* a token that differs only in its access token renders the same.
C19_DebugRedacted ==
    (subject.kind = "token" /\ subject.debug /= NoRendering) =>
        /\ ~Contains(subject.debug, subject.token.access_token)
        /\ \A a \in AccessTokens :
              fmt([subject.token EXCEPT !.access_token = a]) = subject.debug

\* A token was rendered.
C19_Witness ==
    /\ subject.kind = "token"
    /\ subject.debug /= NoRendering
    /\ subject.debug.expires_at = subject.token.expires_at

\* C20: a claim set built by Claims::new has exp = iat + 3595, so iat < exp
\* and exp - iat = 3595.
C20_ExpIsIatPlus3595 ==
    subject.kind = "claims" =>
        /\ subject.claims.exp = subject.claims.iat + 3595
        /\ subject.claims.iat < subject.claims.exp
        /\ subject.claims.exp - subject.claims.iat = 3595

\* A claim set was built after the clock had moved.
C20_Witness ==
    /\ subject.kind = "claims"
    /\ subject.claims.iat > 0
    /\ subject.claims.iat = now

\* The errors that say a provider has no project id.
NotFoundErrors == {"ProjectIdNotFound", "no project ID in application credentials"}

\* project_id() was called on the provider the load gave.
AskedProjectId == load.pc = "loaded" /\ load.pid /= NoAnswer

\* C21: project_id() of a provider loaded from a service_account file answers
\* the file's project_id when it has one and a not-found error when it has
\* none; for an impersonated credential it answers what the provider of its
\* source credentials answers.
C21_ServiceAccountProjectId ==
    AskedProjectId =>
        /\ load.doc.type = "service_account" =>
              IF load.doc.project_id /= Absent
              THEN load.pid = OkId(load.doc.project_id)
              ELSE load.pid.kind = "err" /\ load.pid.error \in NotFoundErrors
        /\ load.doc.type = "impersonated_service_account" =>
              LET src == load_via(load.path, load.doc.source, "ok").result
              IN  src.kind = "provider" => load.pid = project_id(src.provider)

\* C22: project_id() of a provider loaded from an authorized_user file answers
\* quota_project_id when the file has one and the error NoProjectId when it
\* has none.
C22_AuthorizedUserProjectId ==
    (AskedProjectId /\ load.doc.type = "authorized_user") =>
        IF load.doc.quota_project_id /= Absent
        THEN load.pid = OkId(load.doc.quota_project_id)
        ELSE load.pid = ErrId("NoProjectId")

\* An impersonated_service_account file, well formed throughout, whose
\* source_credentials are an impersonated_service_account again.
Nested(doc) ==
    /\ doc.type = "impersonated_service_account"
    /\ doc.source.type = "impersonated_service_account"
    /\ parse_flexible(doc) = "ok"

\* C23: on the FlexibleCredentials / FlexibleCredentialSource load paths a
\* nested impersonation ends the load with the NestedImpersonation error: no
\* provider is built and no token request is sent.
C23_NestedImpersonationRejectedAtLoad ==
    (/\ load.pc = "loaded"
     /\ load.path \in {"FlexibleCredentials::from_json",
                       "FlexibleCredentialSource::try_into_service_account"}
     /\ Nested(load.doc)) =>
        /\ load.result = LoadErr("NestedImpersonation", "nested")
        /\ load.requests = 0

\* C24: on every load path a file whose "type" is not a recognized one ends
\* the load with the unknown-type error and never with a provider.
C24_UnknownTypeRejected ==
    (load.pc = "loaded" /\ load.doc.type = "unknown") =>
        /\ load.result.kind = "err"
        /\ load.result.cause = "unknown variant"

\* Leading and trailing white space removed.
RECURSIVE Trimmed(_)
Trimmed(s) ==
    IF s /= <<>> /\ s[1] \in {" ", CR, LF} THEN Trimmed(Tail(s))
    ELSE IF s /= <<>> /\ s[Len(s)] \in {" ", CR, LF}
    THEN Trimmed(SubSeq(s, 1, Len(s) - 1))
    ELSE s

\* C25: project_id() of GCloudAuthorizedUser fails when the project command
\* failed or printed nothing but white space, and answers the trimmed output
\* otherwise.
C25_GcloudProjectIdTrimmedOrError ==
    (/\ AskedProjectId
     /\ load.path = "GCloudAuthorizedUser::new"
     /\ from_utf8_ok(load.env.stdout)) =>
        IF load.env.status /= "success" \/ Trimmed(load.env.stdout) = <<>>
        THEN load.pid.kind = "err"
        ELSE load.pid = OkId(Trimmed(load.env.stdout))

\* C26: a project_id() call on a metadata-server provider sends no request,
\* leaves the token slot alone and answers what the call before it answered.
C26_MetadataProjectIdCached ==
    [][(/\ load.pc = "loaded"
        /\ load.path \in {"metadata_service_account::MetadataServiceAccount::with_client",
                          "default_service_account::MetadataServiceAccount::new"}
        /\ load'.calls = load.calls + 1) =>
           /\ load'.requests = load.requests
           /\ load'.token = load.token
           /\ load.calls >= 1 => load'.pid = load.pid]_vars

C28_AtMostFiveAttempts ==
    /\ http.sent <= 5
    /\ http.built = http.sent
    /\ http.sent = Len(http.errors) + (IF http.response = NoResponse THEN 0 ELSE 1)
    /\ http.pc = "attempt" => (Len(http.errors) < 5 /\ http.response = NoResponse)
    /\ (http.pc = "done" /\ http.response = NoResponse) =>
          /\ Len(http.errors) = 5
          /\ http.result = [kind |-> "err", error |-> "OAuthConnectionError",
                            cause |-> http.errors[5]]
    /\ http.response /= NoResponse => http.pc = "done"

\* Four transport errors, then a fifth that differs from the fourth: the call
\* has failed with the fifth.
C28_Witness ==
    /\ http.pc = "done"
    /\ Len(http.errors) = 5
    /\ http.errors[4] /= http.errors[5]
    /\ http.result.kind = "err"
    /\ http.result.cause = http.errors[5]

SingleSpaced(scope, s) ==
    /\ Len(scope) = (IF Len(s) = 0 THEN 0 ELSE 2 * Len(s) - 1)
    /\ \A i \in 1..Len(scope) :
          scope[i] = (IF i % 2 = 1 THEN s[(i + 1) \div 2] ELSE " ")

\* The aud the key document asks for: its audience, else its token_uri, else
\* the default token URI.
ExpectedAud(doc) ==
    IF doc.audience /= Absent THEN doc.audience
    ELSE IF doc.token_uri /= Absent THEN doc.token_uri
    ELSE "https://oauth2.googleapis.com/token"

\* C30: a service-account key always gets its claims, with iss the
\* client_email, scope the caller's scopes in order joined by single spaces,
\* and aud the audience when the key has one, else token_uri, else the
\* default token URI.
C30_ClaimsMapKeyAndScopes ==
    subject.kind = "jwt" =>
        /\ subject.result.kind = "claims"
        /\ subject.result.claims.iss = subject.doc.client_email
        /\ SingleSpaced(subject.result.claims.scope, subject.scopes)
        /\ subject.result.claims.aud = ExpectedAud(subject.doc)

\* The same on the ServiceAccountCredentials path alone.
C30_FlexibleClaimsMapKeyAndScopes ==
    (subject.kind = "jwt" /\ subject.via = "ServiceAccountCredentials") =>
        /\ subject.result.kind = "claims"
        /\ subject.result.claims.iss = subject.doc.client_email
        /\ SingleSpaced(subject.result.claims.scope, subject.scopes)
        /\ subject.result.claims.aud = ExpectedAud(subject.doc)

\* The segments of a JWT: the pieces between the dots.
RECURSIVE Segments(_)
Segments(text) ==
    IF \A i \in 1..Len(text) : text[i] /= DOT THEN <<text>>
    ELSE LET d == CHOOSE i \in 1..Len(text) :
                     text[i] = DOT /\ \A j \in 1..(i - 1) : text[j] /= DOT
         IN  <<SubSeq(text, 1, d - 1)>> \o Segments(SubSeq(text, d + 1, Len(text)))

\* The characters of a segment without its trailing '='.
RECURSIVE Unpadded(_)
Unpadded(segment) ==
    IF Len(segment) > 0 /\ segment[Len(segment)] = PAD
    THEN Unpadded(SubSeq(segment, 1, Len(segment) - 1))
    ELSE segment

\* The segments of the JWT are those of the header, of the claims JSON and of
\* the signature over the first two joined by a dot, whatever the padding.
ThreeSegments ==
    LET jwt == subject.result.jwt
        segments == Segments(jwt)
        signed == encode_string(GOOGLE_RS256_HEAD) \o <<DOT>> \o encode_string(subject.json)
    IN  /\ Len(segments) = 3
        /\ segments[1] = test_jwt_sign_head
        /\ Unpadded(segments[2]) = Unpadded(encode_string(subject.json))
        /\ segments[1] \o <<DOT>> \o segments[2] = signed
        /\ segments[3] = encode_string(sign(subject.signer, as_bytes(signed)).signature)

\* C31: to_jwt gives three dot-separated segments, the header, the claims and
\* the signature over header.claims, none of them with '=' in it; when the
\* signer fails there is an error and no JWT.
C31_ThreeUnpaddedSegments ==
    subject.kind = "to_jwt" =>
        IF subject.signer.fails
        THEN subject.result = [kind |-> "err", error |-> "SignerFailed"]
        ELSE /\ subject.result.kind = "ok"
             /\ ThreeSegments
             /\ \A i \in 1..Len(subject.result.jwt) : subject.result.jwt[i] /= PAD

\* The same without the demand that no '=' occurs.
C31_ThreeSegmentsSignedOverTwo ==
    subject.kind = "to_jwt" =>
        IF subject.signer.fails
        THEN subject.result = [kind |-> "err", error |-> "SignerFailed"]
        ELSE subject.result.kind = "ok" /\ ThreeSegments

\* C32: every impersonation request body has lifetime 3600s, has the key
\* scope exactly when the scope list is not empty, and has the key delegates
\* exactly when the credential's delegates are not empty (the external
\* account has no delegates to send).
C32_EmptyArraysOmitted ==
    subject.kind = "impersonation_body" =>
        /\ subject.body.lifetime = <<3600, "s">>
        /\ subject.body.scope = (IF subject.scopes = <<>> THEN NoValue ELSE Some(subject.scopes))
        /\ subject.place /= "ExternalAccount" =>
              subject.body.delegates =
                  (IF subject.delegates = <<>> THEN NoValue ELSE Some(subject.delegates))

\* The same at the two places that serialize an AccessTokenRequest.
C32_AccessTokenRequestOmitsEmpty ==
    (subject.kind = "impersonation_body" /\ subject.place /= "ExternalAccount") =>
        /\ subject.body.lifetime = <<3600, "s">>
        /\ subject.body.scope = (IF subject.scopes = <<>> THEN NoValue ELSE Some(subject.scopes))
        /\ subject.body.delegates =
               (IF subject.delegates = <<>> THEN NoValue ELSE Some(subject.delegates))

\* C33: a token made from an impersonation reply expires at the instant
\* its expireTime names; a reply whose expireTime is no timestamp gives no
\* token.
C33_ExpiryIsParsedExpireTime ==
    (subject.kind = "impersonation_token" /\ subject.result.kind = "ok") =>
        /\ subject.reply.expireTime.text = "timestamp"
        /\ subject.result.token.expires_at = subject.reply.expireTime.instant

\* The same for ImpersonatedServiceAccount alone.
C33_ImpersonatedExpiryIsParsedExpireTime ==
    (subject.kind = "impersonation_token" /\ subject.place = "ImpersonatedServiceAccount") =>
        IF subject.reply.expireTime.text = "timestamp"
        THEN /\ subject.result.kind = "ok"
             /\ subject.result.token.expires_at = subject.reply.expireTime.instant
        ELSE subject.result.kind = "err"

\* The subject token has been read from a source that answered.
SubjectTokenRead ==
    /\ subject.kind = "external"
    /\ subject.pc /= "read"
    /\ subject.cred.file \/ subject.cred.url
    /\ subject.body /= SourceFailure

\* The read step failed and nothing followed.
ReadFailed ==
    /\ subject.pc = "done"
    /\ subject.result.kind = "err"
    /\ subject.result.at = "read"
    /\ Len(subject.steps) = 1

\* C34: with format.type json the subject token is the string value of the
\* field subject_token_field_name (access_token by default), and a body that
\* is no JSON or lacks the field as a string is an error; with any other
\* format the subject token is the body without its surrounding whitespace,
\* from the file and from the url alike.
C34_SubjectTokenByFormat ==
    SubjectTokenRead =>
        LET format == subject.cred.format
            content == subject.body.content
        IN  IF format.some /\ format.value.format_type = "json"
            THEN LET name == IF format.value.subject_token_field_name = Absent
                             THEN "access_token"
                             ELSE format.value.subject_token_field_name
                 IN  IF content.kind = "json" /\ content.field = name /\ content.string
                     THEN /\ ~ReadFailed
                          /\ subject.subject_token.content.text = content.text
                          /\ subject.subject_token.lead = <<>>
                          /\ subject.subject_token.trail = <<>>
                     ELSE ReadFailed
            ELSE /\ ~ReadFailed
                 /\ subject.subject_token.content = content
                 /\ subject.subject_token.lead = <<>>
                 /\ subject.subject_token.trail = <<>>

\* The same for the file source alone.
C34_FileSubjectTokenByFormat ==
    (SubjectTokenRead /\ subject.cred.file) =>
        LET format == subject.cred.format
            content == subject.body.content
        IN  IF format.some /\ format.value.format_type = "json"
            THEN (content.kind = "json"
                  /\ content.field = (IF format.value.subject_token_field_name = Absent
                                      THEN "access_token"
                                      ELSE format.value.subject_token_field_name)
                  /\ content.string) <=> ~ReadFailed
            ELSE /\ ~ReadFailed
                 /\ subject.subject_token = [lead |-> <<>>, content |-> content, trail |-> <<>>]

\* The steps of a refresh, in their order, for the credentials at hand.
StepsInOrder ==
    LET cred == subject.cred
        source == IF cred.file THEN <<"file">> ELSE IF cred.url THEN <<"url">> ELSE <<>>
    IN  source \o <<"sts">>
            \o (IF cred.service_account_impersonation_url THEN <<"impersonate">> ELSE <<>>)

\* C35: the steps taken are an initial part of: source read, STS exchange,
\* impersonation (only with an impersonation url); without a source nothing
\* is sent; a failed step is the last one and the entry stays as it was; a
\* refresh that succeeds took all the steps and stores what it returns, the
\* impersonated token with an impersonation url, else the STS token living
\* expires_in seconds, 3600 by default.
C35_StepsInOrderThenStore ==
    subject.kind = "external" =>
        /\ Len(subject.steps) <= Len(StepsInOrder)
        /\ subject.steps = SubSeq(StepsInOrder, 1, Len(subject.steps))
        /\ (~subject.cred.file /\ ~subject.cred.url) => subject.steps = <<>>
        /\ subject.pc /= "done" => subject.cached = subject.before
        /\ (subject.pc = "done" /\ subject.result.kind = "err") =>
              /\ subject.cached = subject.before
              /\ subject.steps = <<>> \/ subject.steps[Len(subject.steps)] =
                     (IF subject.result.at = "read" THEN StepsInOrder[1] ELSE subject.result.at)
        /\ (subject.pc = "done" /\ subject.result.kind = "ok") =>
              /\ subject.steps = StepsInOrder
              /\ subject.cached = subject.result.token
              /\ IF subject.cred.service_account_impersonation_url
                 THEN /\ subject.result.token.access_token = 2
                      /\ subject.bearer.access_token = 1
                 ELSE /\ subject.result.token.access_token = 1
                      /\ subject.result.token.expires_at = subject.stsAt +
                             (IF subject.sts.expires_in.some THEN subject.sts.expires_in.value
                              ELSE 3600)

\* A refresh over a url source with impersonation has replaced an old entry
\* with the impersonated token, and the STS reply named no expires_in.
C35_Witness ==
    /\ subject.kind = "external"
    /\ subject.pc = "done"
    /\ subject.result.kind = "ok"
    /\ subject.steps = <<"url", "sts", "impersonate">>
    /\ subject.before.access_token = 9
    /\ subject.cached.access_token = 2
    /\ ~subject.sts.expires_in.some

\* C36: within one refresh_token call of ImpersonatedServiceAccount every
\* impersonation POST comes after a source refresh for the same scopes that
\* succeeded, and carries the token of that refresh as its Bearer; when the
\* source refresh fails no POST is sent, the error of the source is the
\* result and the impersonation entry stays as it was.
C36_PostAfterSourceRefresh ==
    subject.kind = "impersonated" =>
        /\ \A i \in 1..Len(subject.log) :
              subject.log[i].to = "impersonation" =>
                  /\ i > 1
                  /\ subject.log[1] = [to |-> "source", scopes |-> subject.log[i].scopes,
                                       result |-> "ok"]
                  /\ subject.log[i].scopes = subject.scopes
                  /\ subject.log[i].bearer = subject.source_token
                  /\ subject.log[i].bearer /= NoToken
        /\ (Len(subject.log) >= 1 /\ subject.log[1].result = "err") =>
              /\ Len(subject.log) = 1
              /\ subject.pc = "done"
              /\ subject.result.kind = "err"
              /\ subject.result.error \in {"OAuthConnectionError", "ServerUnavailable"}
              /\ subject.cached = subject.before

\* A refresh whose second POST was answered with a token: both POSTs carry
\* the token of the source.
C36_Witness ==
    /\ subject.kind = "impersonated"
    /\ subject.pc = "done"
    /\ subject.result.kind = "ok"
    /\ Len(subject.log) = 3
    /\ subject.log[2].bearer.access_token = 3
    /\ subject.log[3].bearer.access_token = 3
    /\ subject.scopes = <<"s2", "s1">>

\* A refresh_token(s) call returns Ok in this step: the inline one of some
\* caller, or a background one.
RefreshSucceeds(s) ==
    /\ issued' = issued + Requests(provider)
    /\ \/ \E c \in Callers : pc[c] = "refreshing" /\ scopes[c] = s /\ pc'[c] = "idle"
       \/ bg'[s] < bg[s]

\* The keys of the provider's own map (the slot of the source_credentials of
\* an ImpersonatedServiceAccount is not one of them).
OwnKeys == IF provider = "ImpersonatedServiceAccount" THEN CacheKeys \ {Slot} ELSE CacheKeys

\* C37: a refresh_token(s) that succeeds files its token under the key that
\* get_token(s) reads, so that get_token(s) then gives this token, and leaves
\* every other entry of the map as it was; a step that is no successful
\* refresh leaves the whole map as it was.
C37_RefreshInstallsUnderReadKey ==
    [][/\ \A s \in ScopeLists :
             RefreshSucceeds(s) =>
                 /\ tokens'[CacheKey(provider, s)].access_token = issued'
                 /\ tokens'[CacheKey(provider, s)] /= tokens[CacheKey(provider, s)]
                 /\ \A c \in Callers :
                        (pc[c] = "refreshing" /\ scopes[c] = s /\ pc'[c] = "idle") =>
                            ret'[c] = Ok(tokens'[CacheKey(provider, s)])
                 /\ \A k \in OwnKeys \ {CacheKey(provider, s)} : tokens'[k] = tokens[k]
       /\ issued' = issued => tokens' = tokens]_vars

\* FlexibleCredentials holds a token for <<3>>, and a refresh for <<2, 1>>
\* has filed its token under <<1, 2>>.
C37_Witness ==
    /\ provider = "FlexibleCredentials"
    /\ tokens[<<3>>] /= NoToken
    /\ tokens[<<2, 1>>] = NoToken
    /\ \E c \in Callers :
          /\ scopes[c] = <<2, 1>>
          /\ pc[c] = "idle"
          /\ path[c] = "refresh"
          /\ ret[c] = Ok(tokens[<<1, 2>>])

\* The refresh_token calls in flight that will write the cache entry k:
\* inline ones by caller, background ones by scope list.
WritersOf(k) ==
    Cardinality({c \in Callers : pc[c] = "refreshing" /\ CacheKey(provider, scopes[c]) = k})
    + Cardinality({s \in ScopeLists : bg[s] > 0 /\ CacheKey(provider, s) = k})

\* C38: the refresh mutex and the cache entry agree on their key, so that
\* calls that use the same cache entry exclude each other: no cache entry
\* has two refreshes in flight at once, also when the scope lists of the
\* calls are permutations of each other.
C38_LockKeyIsCacheKey == \A k \in CacheKeys : WritersOf(k) <= 1

\* The same for the providers that file a token under the scopes as given or
\* in one slot.
C38_LockKeyIsCacheKeyUnlessSorted ==
    provider /= "FlexibleCredentials" =>
        /\ \A s, t \in ScopeLists :
              CacheKey(provider, s) = CacheKey(provider, t) =>
                  lock_for_scopes(s) = lock_for_scopes(t)
        /\ \A k \in CacheKeys : WritersOf(k) <= 1

\* C39: when the caller doing the inline refresh is cancelled, the mutex of
\* its scopes is free afterwards and the cache entry of its scopes is what it
\* was; and a refresh mutex is held only while a refresh under it is in
\* flight, so that a later call for the scopes can lock it.
C39_CancelledRefreshReleasesLock ==
    /\ [](\A k \in LockKeys : refresh_lock[k] = "held" => InFlight(k) = 1)
    /\ [][\A c \in Callers :
             (pc[c] = "refreshing" /\ ret'[c] = Cancelled) =>
                 /\ refresh_lock'[lock_for_scopes(scopes[c])] = "free"
                 /\ tokens'[CacheKey(provider, scopes[c])] = tokens[CacheKey(provider, scopes[c])]
                 /\ \A k \in LockKeys \ {lock_for_scopes(scopes[c])} :
                        refresh_lock'[k] = refresh_lock[k]]_vars

\* A refresh was cancelled, and a later call for the same scopes has locked
\* the mutex, refreshed and returned its token.
C39_Witness ==
    \E c, w \in Callers :
        /\ c /= w
        /\ path[c] = "cancelled_refreshing" /\ ret[c] = Cancelled
        /\ scopes[w] = scopes[c]
        /\ path[w] = "refresh" /\ pc[w] = "idle" /\ ret[w].kind = "ok"
        /\ ret[w].token = tokens[CacheKey(provider, scopes[w])]

\* A call is under way, a refresh is in flight or a mutex is held.
Busy ==
    \/ \E c \in Callers : pc[c] /= "idle"
    \/ \E s \in ScopeLists : bg[s] > 0
    \/ \E k \in LockKeys : refresh_lock[k] = "held"

\* Some call or spawned task can take its next step.
CanStep ==
    \/ \E c \in Callers : ENABLED TryLockSpawn(c)
    \/ \E c \in Callers : ENABLED InlineLock(c)
    \/ \E c \in Callers : ENABLED InlineReturns(c)
    \/ \E s \in ScopeLists : ENABLED BackgroundReturns(s)

\* C40: with the fairness above, every get_token call returns Ok or Err,
\* every refresh mutex that is held is released, and no state with a call
\* under way or a mutex held is stuck.
C40_CallsReturnAndLocksAreReleased ==
    /\ \A c \in Callers : (pc[c] /= "idle") ~> (pc[c] = "idle" /\ ret[c].kind \in {"ok", "err"})
    /\ \A k \in LockKeys : (refresh_lock[k] = "held") ~> (refresh_lock[k] = "free")
    /\ [](Busy => CanStep)

\* A background refresh has failed while a caller was waiting for the mutex
\* of the same scopes; the mutex is free again and the caller has returned.
C40_Witness ==
    \E c \in Callers :
        /\ pc[c] = "idle" /\ path[c] = "refresh" /\ ret[c].kind = "err"
        /\ refresh_lock[lock_for_scopes(scopes[c])] = "free"
        /\ \A s \in ScopeLists : bg[s] = 0
        /\ \E w \in Callers : w /= c /\ path[w] = "spawn" /\ pc[w] = "idle"

====
